---- MODULE Spec2Model ----
(***************************************************************************)
(* Model of the parameter smoothing engine of nih-plug                     *)
(* (src/params/smoothing.rs, src/sample.rs).                               *)
(*                                                                         *)
(* Numbers.  The engine float type S (f32) is modelled as a signed         *)
(* fixed-point number: the integer x stands for x / SCALE.  Additions and  *)
(* subtractions are exact, every multiplication and division rounds its    *)
(* exact result to the nearest grid value (ties to even), which is what an *)
(* IEEE operation does on its own grid.  The logical type T is either f32  *)
(* (same representation) or i32 (a plain integer); to_s / from_s convert   *)
(* as the Rust `as` casts do (from_s to i32 truncates toward zero).  All   *)
(* values stay far inside the range where i32 -> f32 is exact.             *)
(* Sample rates are whole Hz and durations whole milliseconds.             *)
(***************************************************************************)
EXTENDS Integers, Sequences, FiniteSets, TLC

\* ------------------------------------------------------------------ bounds
\* largest parameter value handed to reset / set_target
MaxVal == 2
\* longest smoothing duration of a style, in milliseconds
MaxTime == 3
\* longest block handed to next_block_exact
MaxLen == 3
\* largest step count handed to next_step
MaxSkip == 3
\* number of reset / set_target calls in one run
MaxCalls == 2
\* number of ramp events scheduled for one render call
MaxEvents == 2
\* number of render calls in one run
MaxRenders == 1

\* Grid resolution of the modelled float type: 1 / SCALE plays the role of
\* the machine epsilon of S.
SCALE == 64

SampleRates == {250, 500}
OversamplingFactors == {1, 2}
TypeParams == {"f32", "i32"}

\* ------------------------------------------------------------ arithmetic
ZERO == 0
ONE == SCALE

Abs(x) == IF x < 0 THEN -x ELSE x
Min2(x, y) == IF x < y THEN x ELSE y
Max2(x, y) == IF x > y THEN x ELSE y

RECURSIVE Pow(_, _)
Pow(b, e) == IF e = 0 THEN 1 ELSE b * Pow(b, e - 1)

\* a / b rounded to the nearest integer, ties to even (b > 0)
RoundDivPos(a, b) ==
    LET q == a \div b
        r == a % b
    IN  IF 2 * r < b THEN q
        ELSE IF 2 * r > b THEN q + 1
        ELSE IF q % 2 = 0 THEN q ELSE q + 1

RoundDiv(a, b) == IF b > 0 THEN RoundDivPos(a, b) ELSE RoundDivPos(-a, -b)

\* S * S
FMul(a, b) == RoundDiv(a * b, SCALE)
\* S / S
FDiv(a, b) == RoundDiv(a * SCALE, b)
\* the integers up to 2^24 are all values of f32; from there to 2^25 only
\* the even ones are
MaxExactInt == 16777216

\* `p as f32` for an integer p up to 2^25 in size: the nearest value of
\* f32, ties to the even mantissa
as_f32(p) ==
    LET a == Abs(p)
        r == IF a <= MaxExactInt \/ a % 2 = 0 THEN a
             ELSE IF (a \div 2) % 2 = 0 THEN a - 1 ELSE a + 1
    IN  IF p < 0 THEN -r ELSE r

\* S::from_p(n) for an integer n
from_p(n) == as_f32(n) * SCALE

\* f32::round of the non-negative quotient n / d: half away from zero
RoundHalfAway(n, d) == (2 * n + d) \div (2 * d)

\* b^n <= x, computed without leaving the machine integers
RECURSIVE PowLeq(_, _, _)
PowLeq(b, n, x) ==
    IF n = 0 THEN 1 <= x
    ELSE b = 0 \/ (b <= x /\ PowLeq(b, n - 1, x \div b))

\* the largest h in lo..hi-1 with h^n <= x (lo^n <= x < hi^n), by bisection
RECURSIVE IRootBetween(_, _, _, _)
IRootBetween(x, n, lo, hi) ==
    IF hi - lo <= 1 THEN lo
    ELSE LET mid == (lo + hi) \div 2
         IN  IF PowLeq(mid, n, x)
             THEN IRootBetween(x, n, mid, hi)
             ELSE IRootBetween(x, n, lo, mid)

\* The n-th root of a value x >= 0 given in half grid units raised to the
\* n-th power, rounded to the nearest grid value.  `whole` says that x is
\* the exact value and not its integer part, so that a root of exactly half
\* a grid step is a tie (to even).
RoundedRoot(x, n, whole) ==
    LET h == IF n = 1 THEN x ELSE IRootBetween(x, n, 0, x + 1)
    IN  IF h % 2 = 0 THEN h \div 2
        ELSE IF whole /\ Pow(h, n) = x /\ ((h - 1) \div 2) % 2 = 0
             THEN (h - 1) \div 2
             ELSE (h + 1) \div 2

\* f64::powf(x, 1 / n) for a grid value x > 0, cast back to S
powf_recip(x, n) == RoundedRoot(Pow(2, n) * x * Pow(SCALE, n - 1), n, TRUE)

\* f64::powf(0.0001, 1 / n), cast to S
powf_recip_0001(n) ==
    RoundedRoot(Pow(2 * SCALE, n) \div 10000, n, Pow(2 * SCALE, n) % 10000 = 0)

\* S::powi(x, n), n >= 1: repeated multiplication
RECURSIVE powi(_, _)
powi(x, n) == IF n <= 1 THEN x ELSE FMul(powi(x, n - 1), x)

\* --------------------------------------------------------------- Smoothable
\* T::to_s
to_s(ty, v) == IF ty = "i32" THEN from_p(v) ELSE v

\* T::from_s: `s as i32` truncates toward zero, `s as f32` is the identity
from_s(ty, s) ==
    IF ty = "i32"
    THEN IF s >= 0 THEN s \div SCALE ELSE -((-s) \div SCALE)
    ELSE s

\* ------------------------------------------------------------------ state
VARIABLES
    \* the type parameter T of Smoother<T, S>: "f32" or "i32"
    T,
    \* Smoother::style: [tag, time (ms), oversampling_aware]
    style,
    \* the Arc<S::Atomic> of SmoothingStyle::OversamplingAware
    oversampling_times,
    \* Smoother::steps_left, step_size, current, target
    steps_left,
    step_size,
    current,
    target,
    \* the slice handed to the last block call, as it was left
    block_values,
    \* the last operation, its arguments, its return value and the
    \* smoother as it was when the operation started
    op,
    arg,
    arg_rate,
    ret,
    pre,
    \* what happened since the last reset / set_target
    ramp,
    \* the (index, value) pairs the last mapped block call handed to its
    \* mapping function, in the order of the calls
    mapper_calls,
    \* the Option the last pull from a SmootherIter yielded
    item,
    \* the last previous_value call, when it is the latest call: the value
    \* it returned, the value the call before it returned, and the smoother
    \* as it was when previous_value started
    previous,
    \* the number of reset / set_target calls made so far
    calls,
    \* a run of the curve engine on its own: style, start, target, step
    \* count, step size, and the value after k applications of next()
    cv,
    \* the audio thread: where it is in its operation, and its locals
    apc,
    audio,
    \* the producer thread: where it is in its operation, and its locals
    ppc,
    producer,
    \* the AU wrapper's scheduled parameter events of the parameter that owns
    \* the smoother, in the order render visits them
    scheduled_params,
    \* what the last render call did: its frame count, the sub-blocks it
    \* processed, the offsets of the events it applied, the order of both, the
    \* offsets scheduled when it was called, the number of events left when it
    \* returned, and the style of the last set_target
    rendered,
    \* the style the parameter had when the first event now scheduled was
    \* scheduled
    style_before,
    \* bookkeeping of the latest set_target: whose target and step size the
    \* cells hold, how many next() calls used a stale step size, and what a
    \* set_target that landed on a next() in flight has published
    pub,
    \* the AtomicRefCell around the style: the number of shared borrows
    \* held, whether the exclusive borrow is held, and which thread a failed
    \* borrow made panic
    style_borrow

smoother_vars == <<style, steps_left, step_size, current, target>>
vars == <<T, style, oversampling_times, steps_left, step_size, current, target,
          block_values, mapper_calls, item, previous, op, arg, arg_rate, ret,
          pre, ramp, calls,
          cv, apc, audio, ppc, producer, pub, style_borrow,
          scheduled_params, rendered, style_before>>
\* what the whole-call operations record about the last call
call_vars ==
    <<block_values, mapper_calls, item, previous, op, arg, arg_rate, ret, pre,
      ramp>>
\* the AU wrapper's schedule and its bookkeeping
au_vars == <<scheduled_params, rendered, style_before>>
\* the two threads of the interleaved specification
thread_vars == <<apc, audio, ppc, producer, pub, style_borrow>>

\* the smoother as one value
Self ==
    [style |-> style, steps_left |-> steps_left, step_size |-> step_size,
     current |-> current, target |-> target]

\* ----------------------------------------------------------- SmoothingStyle
StyleNone == [tag |-> "None", time |-> 0, oversampling_aware |-> FALSE]

Styles ==
    {[tag |-> "None", time |-> 0, oversampling_aware |-> o] : o \in BOOLEAN}
    \cup
    {[tag |-> g, time |-> t, oversampling_aware |-> o] :
        g \in {"Linear", "Logarithmic", "Exponential"},
        t \in 0..MaxTime, o \in BOOLEAN}

\* num_steps that computes the step count of None from its (zero) time like
\* the timed styles
SmoothingStyle_num_steps_NoneTimed(st, sample_rate) ==
    LET rate == IF st.oversampling_aware
                THEN sample_rate * oversampling_times
                ELSE sample_rate
    IN  RoundHalfAway(rate * st.time, 1000)

\* num_steps that passes the sample rate to the inner style as it is
SmoothingStyle_num_steps_IgnoresFactor(st, sample_rate) ==
    IF st.tag = "None" THEN 1
    ELSE RoundHalfAway(sample_rate * st.time, 1000)

\* SmoothingStyle::num_steps.  (sample_rate * time * 0.001).round() is
\* computed on whole Hz and whole ms; `to_p` to u32 leaves a non-negative
\* whole number as it is.
SmoothingStyle_num_steps(st, sample_rate) ==
    LET rate == IF st.oversampling_aware
                THEN sample_rate * oversampling_times
                ELSE sample_rate
    IN  IF st.tag = "None" THEN 1
        ELSE RoundHalfAway(rate * st.time, 1000)

\* the `style` of `Self::OversamplingAware(oversampling_times, style)`
inner_style(st) == [st EXCEPT !.oversampling_aware = FALSE]

\* SmoothingStyle::step_size
SmoothingStyle_step_size(st, start, tgt, num_steps) ==
    CASE st.tag = "None" -> ZERO
      [] st.tag = "Linear" -> FDiv(tgt - start, from_p(num_steps))
      [] st.tag = "Logarithmic" -> powf_recip(FDiv(tgt, start), num_steps)
      [] st.tag = "Exponential" -> powf_recip_0001(num_steps)

\* SmoothingStyle::next
SmoothingStyle_next(st, cur, tgt, step) ==
    CASE st.tag = "None" -> tgt
      [] st.tag = "Linear" -> cur + step
      [] st.tag = "Logarithmic" -> FMul(cur, step)
      [] st.tag = "Exponential" -> FMul(cur, step) + FMul(tgt, ONE - step)

\* SmoothingStyle::next_step
SmoothingStyle_next_step(st, cur, tgt, step, steps) ==
    CASE st.tag = "None" -> tgt
      [] st.tag = "Linear" -> cur + FMul(step, from_p(steps))
      [] st.tag = "Logarithmic" -> FMul(cur, powi(step, steps))
      [] st.tag = "Exponential" ->
            LET coefficient == powi(step, steps)
            IN  FMul(cur, coefficient) + FMul(tgt, ONE - coefficient)

\* ---------------------------------------------------------- exact arithmetic
\* The same formulas without rounding: a number is <<m, e>>, standing for
\* m / 2^e with m odd or e = 0, so equal numbers are equal pairs.
RECURSIVE XNorm(_, _)
XNorm(m, e) ==
    IF e > 0 /\ m % 2 = 0 THEN XNorm(m \div 2, e - 1) ELSE <<m, e>>

RECURSIVE Log2(_)
Log2(n) == IF n <= 1 THEN 0 ELSE 1 + Log2(n \div 2)

\* the exact value of a fixed-point number
XOf(x) == XNorm(x, Log2(SCALE))

XAdd(x, y) ==
    LET e == Max2(x[2], y[2])
    IN  XNorm(x[1] * Pow(2, e - x[2]) + y[1] * Pow(2, e - y[2]), e)

XSub(x, y) == XAdd(x, <<0 - y[1], y[2]>>)

XMul(x, y) == XNorm(x[1] * y[1], x[2] + y[2])

RECURSIVE XPowi(_, _)
XPowi(x, n) == IF n <= 0 THEN XOf(ONE) ELSE XMul(XPowi(x, n - 1), x)

\* SmoothingStyle::next, every operation exact
SmoothingStyle_next_exact(st, cur, tgt, step) ==
    CASE st.tag = "None" -> tgt
      [] st.tag = "Linear" -> XAdd(cur, step)
      [] st.tag = "Logarithmic" -> XMul(cur, step)
      [] st.tag = "Exponential" ->
            XAdd(XMul(cur, step), XMul(tgt, XSub(XOf(ONE), step)))

\* next_step whose closed form is one step short
SmoothingStyle_next_step_exact_OneShort(st, cur, tgt, step, steps) ==
    CASE st.tag = "None" -> tgt
      [] st.tag = "Linear" -> XAdd(cur, XMul(step, XOf(from_p(steps - 1))))
      [] st.tag = "Logarithmic" -> XMul(cur, XPowi(step, steps - 1))
      [] st.tag = "Exponential" ->
            LET coefficient == XPowi(step, steps - 1)
            IN  XAdd(XMul(cur, coefficient),
                     XMul(tgt, XSub(XOf(ONE), coefficient)))

\* next_step whose Exponential closed form weighs the target by the
\* coefficient itself
SmoothingStyle_next_step_exact_WrongWeight(st, cur, tgt, step, steps) ==
    CASE st.tag = "None" -> tgt
      [] st.tag = "Linear" -> XAdd(cur, XMul(step, XOf(from_p(steps))))
      [] st.tag = "Logarithmic" -> XMul(cur, XPowi(step, steps))
      [] st.tag = "Exponential" ->
            LET coefficient == XPowi(step, steps)
            IN  XAdd(XMul(cur, coefficient), XMul(tgt, coefficient))

\* SmoothingStyle::next_step, every operation exact
SmoothingStyle_next_step_exact(st, cur, tgt, step, steps) ==
    CASE st.tag = "None" -> tgt
      [] st.tag = "Linear" -> XAdd(cur, XMul(step, XOf(from_p(steps))))
      [] st.tag = "Logarithmic" -> XMul(cur, XPowi(step, steps))
      [] st.tag = "Exponential" ->
            LET coefficient == XPowi(step, steps)
            IN  XAdd(XMul(cur, coefficient),
                     XMul(tgt, XSub(XOf(ONE), coefficient)))

\* ----------------------------------------------------------------- Smoother
\* Default for Smoother: style None, nothing to smooth, everything zero
Smoother_default ==
    [style |-> StyleNone, steps_left |-> 0, step_size |-> ZERO,
     current |-> ZERO, target |-> 0]

\* Smoother::none
Smoother_none == Smoother_default

\* a constructor that leaves one step to go
Smoother_new_StepToGo(st) ==
    [style |-> st, steps_left |-> 1, step_size |-> ZERO, current |-> ZERO,
     target |-> 0]

\* Smoother::new: `..Default::default()` with the given style
Smoother_new(st) ==
    [style |-> st, steps_left |-> 0, step_size |-> ZERO, current |-> ZERO,
     target |-> 0]

\* Smoother::steps_left
Smoother_steps_left(self) == self.steps_left

\* Smoother::is_smoothing
Smoother_is_smoothing(self) == Smoother_steps_left(self) > 0

\* reset that leaves the countdown running
Smoother_reset_KeepsCountdown(self, value) ==
    [self EXCEPT !.target = value, !.current = to_s(T, value)]

\* Smoother::reset
Smoother_reset(self, value) ==
    [self EXCEPT !.target = value, !.current = to_s(T, value), !.steps_left = 0]

\* set_target that lets a ramp under way keep its remaining steps
Smoother_set_target_KeepsRemaining(self, sample_rate, tgt) ==
    LET full == SmoothingStyle_num_steps(self.style, sample_rate)
        n == IF self.steps_left > 0 THEN self.steps_left ELSE full
    IN  [self EXCEPT
            !.target = tgt,
            !.steps_left = n,
            !.step_size =
                IF n > 0
                THEN SmoothingStyle_step_size(self.style, self.current,
                                              to_s(T, tgt), n)
                ELSE ZERO]

\* Smoother::set_target
Smoother_set_target(self, sample_rate, tgt) ==
    LET n == SmoothingStyle_num_steps(self.style, sample_rate)
    IN  [self EXCEPT
            !.target = tgt,
            !.steps_left = n,
            !.step_size =
                IF n > 0
                THEN SmoothingStyle_step_size(self.style, self.current,
                                              to_s(T, tgt), n)
                ELSE ZERO]

\* next that takes `steps_left >= 0` for `steps_left > 0`
Smoother_next_OffByOne(self) ==
    IF self.steps_left >= 0
    THEN LET target_s == to_s(T, self.target)
             new == IF self.steps_left = 1
                    THEN target_s
                    ELSE SmoothingStyle_next(self.style, self.current,
                                             target_s, self.step_size)
         IN  [self |-> [self EXCEPT
                            !.steps_left = IF self.steps_left = 1
                                           THEN 0 ELSE self.steps_left - 1,
                            !.current = new],
              ret |-> from_s(T, new)]
    ELSE [self |-> self, ret |-> self.target]

\* next that snaps to the target one step early
Smoother_next_SnapsEarly(self) ==
    IF self.steps_left > 0
    THEN LET target_s == to_s(T, self.target)
             new == IF self.steps_left <= 2
                    THEN target_s
                    ELSE SmoothingStyle_next(self.style, self.current,
                                             target_s, self.step_size)
         IN  [self |-> [self EXCEPT
                            !.steps_left = self.steps_left - 1,
                            !.current = new],
              ret |-> from_s(T, new)]
    ELSE [self |-> self, ret |-> self.target]

\* Smoother::next: the smoother it leaves and the value it returns
Smoother_next(self) ==
    IF self.steps_left > 0
    THEN LET target_s == to_s(T, self.target)
             old_steps_left == self.steps_left
             new == IF old_steps_left = 1
                    THEN target_s
                    ELSE SmoothingStyle_next(self.style, self.current,
                                             target_s, self.step_size)
         IN  [self |-> [self EXCEPT
                            !.steps_left = IF old_steps_left = 1
                                           THEN 0 ELSE old_steps_left - 1,
                            !.current = new],
              ret |-> from_s(T, new)]
    ELSE [self |-> self, ret |-> self.target]

\* next_step that forgets to clamp the countdown back to 0
Smoother_next_step_NoClamp(self, steps) ==
    IF self.steps_left > 0
    THEN LET target_s == to_s(T, self.target)
             new == IF self.steps_left <= steps
                    THEN target_s
                    ELSE SmoothingStyle_next_step(self.style, self.current,
                                                  target_s, self.step_size,
                                                  steps)
         IN  [self |-> [self EXCEPT
                            !.steps_left = self.steps_left - steps,
                            !.current = new],
              ret |-> from_s(T, new)]
    ELSE [self |-> self, ret |-> self.target]

\* next_step that counts one step too few
Smoother_next_step_CountsShort(self, steps) ==
    IF self.steps_left > 0
    THEN LET target_s == to_s(T, self.target)
             new == IF self.steps_left <= steps
                    THEN target_s
                    ELSE SmoothingStyle_next_step(self.style, self.current,
                                                  target_s, self.step_size,
                                                  steps)
         IN  [self |-> [self EXCEPT
                            !.steps_left = IF self.steps_left <= steps
                                           THEN 0
                                           ELSE self.steps_left - (steps - 1),
                            !.current = new],
              ret |-> from_s(T, new)]
    ELSE [self |-> self, ret |-> self.target]

\* Smoother::next_step
Smoother_next_step(self, steps) ==
    IF self.steps_left > 0
    THEN LET target_s == to_s(T, self.target)
             old_steps_left == self.steps_left
             new == IF old_steps_left <= steps
                    THEN target_s
                    ELSE SmoothingStyle_next_step(self.style, self.current,
                                                  target_s, self.step_size,
                                                  steps)
         IN  [self |-> [self EXCEPT
                            !.steps_left = IF old_steps_left <= steps
                                           THEN 0 ELSE old_steps_left - steps,
                            !.current = new],
              ret |-> from_s(T, new)]
    ELSE [self |-> self, ret |-> self.target]

\* Smoother::previous_value
Smoother_previous_value(self) == from_s(T, self.current)

\* Option<T>: None, or Some of one value
None == <<>>

Some(v) == <<v>>

\* Smoother::iter: the iterator borrows the smoother, it holds no state of
\* its own
Smoother_iter(self) == [smoother |-> self]

\* an iterator that ends once the smoother has stopped smoothing
SmootherIter_next_EndsWhenIdle(it) ==
    IF it.smoother.steps_left > 0
    THEN LET r == Smoother_next(it.smoother)
         IN  [self |-> r.self, item |-> Some(r.ret)]
    ELSE [self |-> it.smoother, item |-> None]

\* Iterator::next for SmootherIter: `Some(self.smoother.next())`
SmootherIter_next(it) ==
    LET r == Smoother_next(it.smoother)
    IN  [self |-> r.self, item |-> Some(r.ret)]

\* the values `current = style.next(current, target_s, step_size)` takes when
\* it is run n times
RECURSIVE fill_with_next(_, _, _, _, _)
fill_with_next(st, cur, target_s, step, n) ==
    IF n <= 0 THEN <<>>
    ELSE LET c == SmoothingStyle_next(st, cur, target_s, step)
         IN  <<c>> \o fill_with_next(st, c, target_s, step, n - 1)

\* next_block_exact that does not snap the element exhausting the countdown
Smoother_next_block_exact_NoSnap(self, len) ==
    LET num_smoothed_values ==
            IF self.steps_left < 0 THEN len ELSE Min2(len, self.steps_left)
        target_s == to_s(T, self.target)
        run == fill_with_next(self.style, self.current, target_s,
                              self.step_size, num_smoothed_values)
        smoothed == [i \in 1..Len(run) |-> from_s(T, run[i])]
        rest == [i \in 1..(len - num_smoothed_values) |-> self.target]
    IN  IF num_smoothed_values > 0
        THEN [self |-> [self EXCEPT
                            !.current = run[Len(run)],
                            !.steps_left = self.steps_left - num_smoothed_values],
              block |-> smoothed \o rest]
        ELSE [self |-> self, block |-> [i \in 1..len |-> self.target]]

\* next_block_exact that lowers the countdown by the length of the slice
Smoother_next_block_exact_CountsLen(self, len) ==
    LET num_smoothed_values ==
            IF self.steps_left < 0 THEN len ELSE Min2(len, self.steps_left)
        exhausts == num_smoothed_values = self.steps_left
        target_s == to_s(T, self.target)
        run == fill_with_next(self.style, self.current, target_s,
                              self.step_size,
                              IF exhausts THEN num_smoothed_values - 1
                              ELSE num_smoothed_values)
        smoothed == [i \in 1..Len(run) |-> from_s(T, run[i])]
        head == IF exhausts THEN smoothed \o <<self.target>> ELSE smoothed
        rest == [i \in 1..(len - num_smoothed_values) |-> self.target]
    IN  IF num_smoothed_values > 0
        THEN [self |-> [self EXCEPT
                            !.current = IF exhausts THEN target_s
                                        ELSE run[Len(run)],
                            !.steps_left = self.steps_left - len],
              block |-> head \o rest]
        ELSE [self |-> self, block |-> [i \in 1..len |-> self.target]]

\* Smoother::next_block_exact on a slice of length len: the smoother it
\* leaves and the slice it writes.  `steps_left as usize` of a negative
\* counter is larger than any slice length.
Smoother_next_block_exact(self, len) ==
    LET num_smoothed_values ==
            IF self.steps_left < 0 THEN len ELSE Min2(len, self.steps_left)
        exhausts == num_smoothed_values = self.steps_left
        target_s == to_s(T, self.target)
        run == fill_with_next(self.style, self.current, target_s,
                              self.step_size,
                              IF exhausts THEN num_smoothed_values - 1
                              ELSE num_smoothed_values)
        smoothed == [i \in 1..Len(run) |-> from_s(T, run[i])]
        head == IF exhausts THEN smoothed \o <<self.target>> ELSE smoothed
        rest == [i \in 1..(len - num_smoothed_values) |-> self.target]
    IN  IF num_smoothed_values > 0
        THEN [self |-> [self EXCEPT
                            !.current = IF exhausts THEN target_s
                                        ELSE run[Len(run)],
                            !.steps_left = self.steps_left - num_smoothed_values],
              block |-> head \o rest]
        ELSE [self |-> self, block |-> [i \in 1..len |-> self.target]]

\* the multipliers of the mapping functions a caller passes to the mapped
\* block calls
MapperGains == {0, 1}

\* a mapping function `f: impl FnMut(usize, S) -> T`: the value moved by
\* m times the index, as a T
Mapper(m, idx, s) == from_s(T, s + from_p(m * idx))

\* the calls `f(idx, value)` of one loop over indices first .. first + n - 1
\* (0-based), in the order the loop makes them; values[j] goes to the j-th
RECURSIVE mapper_loop(_, _, _)
mapper_loop(first, values, j) ==
    IF j > Len(values) THEN <<>>
    ELSE <<[idx |-> first + j - 1, value |-> values[j]]>>
         \o mapper_loop(first, values, j + 1)

\* next_block_exact_mapped that fills an idle block without calling f
Smoother_next_block_exact_mapped_SkipsIdle(self, len, m) ==
    LET target_s == to_s(T, self.target)
        num_smoothed_values ==
            IF self.steps_left < 0 THEN len ELSE Min2(len, self.steps_left)
        exhausts == num_smoothed_values = self.steps_left
        run == fill_with_next(self.style, self.current, target_s,
                              self.step_size,
                              IF exhausts THEN num_smoothed_values - 1
                              ELSE num_smoothed_values)
        head == mapper_loop(0, run, 1)
        last == IF exhausts
                THEN <<[idx |-> num_smoothed_values - 1, value |-> target_s]>>
                ELSE <<>>
        fs == head \o last
    IN  IF num_smoothed_values > 0
        THEN [self |-> [self EXCEPT
                            !.current = IF exhausts THEN target_s
                                        ELSE run[Len(run)],
                            !.steps_left = self.steps_left - num_smoothed_values],
              block |-> [i \in 1..len |->
                            IF i <= Len(fs) THEN Mapper(m, fs[i].idx, fs[i].value)
                            ELSE self.target],
              calls |-> fs]
        ELSE [self |-> self,
              block |-> [i \in 1..len |-> self.target],
              calls |-> <<>>]

\* Smoother::next_block_exact_mapped on a slice of length len with the
\* mapping function of multiplier m: the smoother it leaves, the slice it
\* writes and the calls of the mapping function it makes
Smoother_next_block_exact_mapped(self, len, m) ==
    LET target_s == to_s(T, self.target)
        num_smoothed_values ==
            IF self.steps_left < 0 THEN len ELSE Min2(len, self.steps_left)
        exhausts == num_smoothed_values = self.steps_left
        run == fill_with_next(self.style, self.current, target_s,
                              self.step_size,
                              IF exhausts THEN num_smoothed_values - 1
                              ELSE num_smoothed_values)
        head == mapper_loop(0, run, 1)
        last == IF exhausts
                THEN <<[idx |-> num_smoothed_values - 1, value |-> target_s]>>
                ELSE <<>>
        rest == mapper_loop(num_smoothed_values,
                            [i \in 1..(len - num_smoothed_values) |-> target_s],
                            1)
        fs == IF num_smoothed_values > 0
              THEN head \o last \o rest
              ELSE mapper_loop(0, [i \in 1..len |-> target_s], 1)
    IN  [self |-> IF num_smoothed_values > 0
                  THEN [self EXCEPT
                            !.current = IF exhausts THEN target_s
                                        ELSE run[Len(run)],
                            !.steps_left = self.steps_left - num_smoothed_values]
                  ELSE self,
         block |-> [i \in 1..Len(fs) |-> Mapper(m, fs[i].idx, fs[i].value)],
         calls |-> fs]

\* Smoother::next_block_mapped: the mapped call on `block_values[..block_len]`
Smoother_next_block_mapped(self, block_len, m) ==
    Smoother_next_block_exact_mapped(self, block_len, m)

\* ------------------------------------------------------------ operations
\* the parameter values a caller hands in, as values of T
Values == IF T = "i32" THEN 1..MaxVal ELSE {from_p(v) : v \in 1..MaxVal}

NoRamp ==
    [phase |-> "idle", from_reset |-> FALSE, v0 |-> 0, t |-> 0, n |-> 0,
     adv |-> 0, mix |-> "none", skip |-> 0, start |-> Smoother_new(StyleNone)]

NoCurve ==
    [st |-> StyleNone, start |-> 0, target |-> 0, n |-> 0, step_size |-> 0,
     k |-> 0, value |-> <<0, 0>>, fvalue |-> 0]

\* the audio thread's locals; ret and block are what its last call returned
ALocals ==
    [op |-> "none", arg |-> 0, target |-> 0, steps_left |-> 0, current |-> 0,
     step_size |-> 0, new |-> 0, ret |-> 0, block |-> <<>>,
     awaits |-> 0, quiet |-> FALSE, stale |-> FALSE, ahead |-> FALSE]

\* the producer thread's locals
PLocals ==
    [op |-> "none", value |-> 0, sample_rate |-> 0, steps_left |-> 0,
     current |-> 0]

\* no render call has been made
NotRendered ==
    [frames |-> 0, blocks |-> <<>>, applied |-> <<>>, log |-> <<>>,
     schedule |-> <<>>, left |-> 0, step_style |-> StyleNone]

\* AtomicRefCell::new: nobody holds a borrow of the style
NotBorrowed == [shared |-> 0, exclusive |-> FALSE, panic |-> "none"]

\* no set_target has been called
NoPub ==
    [target_by |-> 0, step_size_by |-> 0, stale |-> 0, landed |-> FALSE,
     target |-> 0, steps_left |-> 0, step_size |-> 0]

\* The state after construction: Smoother::new(style) for a style of the
\* plugin's choice.
InitStyle(styles) ==
    /\ T \in TypeParams
    /\ style \in styles
    /\ oversampling_times \in
            (IF style.oversampling_aware THEN OversamplingFactors ELSE {1})
    /\ steps_left = Smoother_new(style).steps_left
    /\ step_size = Smoother_new(style).step_size
    /\ current = Smoother_new(style).current
    /\ target = Smoother_new(style).target
    /\ block_values = <<>>
    /\ mapper_calls = <<>>
    /\ item = None
    /\ previous = None
    /\ op = "new"
    /\ arg = 0
    /\ arg_rate = 0
    /\ ret = 0
    /\ pre = Smoother_new(style)
    /\ ramp = NoRamp
    /\ calls = 0
    /\ apc = "idle"
    /\ audio = ALocals
    /\ ppc = "idle"
    /\ producer = PLocals
    /\ pub = NoPub
    /\ style_borrow = NotBorrowed
    /\ scheduled_params = <<>>
    /\ rendered = NotRendered
    /\ style_before = style

InitSmoother == InitStyle(Styles)

Init == InitSmoother /\ cv = NoCurve

\* the smoother's fields become those of s
Store(s) ==
    /\ style' = s.style
    /\ steps_left' = s.steps_left
    /\ step_size' = s.step_size
    /\ current' = s.current
    /\ target' = s.target

Record(name, a, rate, r) ==
    /\ item' = None
    /\ previous' = None
    /\ op' = name
    /\ arg' = a
    /\ arg_rate' = rate
    /\ ret' = r
    /\ pre' = Self

\* nih_debug_assert_ne!(start, S::ZERO) of step_size, and the documented
\* contract of Logarithmic: start and target are non-zero and of one sign
LogarithmicContract(self, tgt) ==
    self.style.tag = "Logarithmic" => self.current > 0 /\ to_s(T, tgt) > 0

reset(value) ==
    /\ calls < MaxCalls
    /\ calls' = calls + 1
    /\ Store(Smoother_reset(Self, value))
    /\ Record("reset", value, 0, 0)
    /\ ramp' = [NoRamp EXCEPT !.phase = "reset", !.v0 = value]
    /\ block_values' = <<>>
    /\ mapper_calls' = <<>>
    /\ UNCHANGED <<T, oversampling_times, cv, thread_vars, au_vars>>

set_target(sample_rate, tgt) ==
    /\ calls < MaxCalls
    /\ calls' = calls + 1
    /\ LogarithmicContract(Self, tgt)
    /\ LET s == Smoother_set_target(Self, sample_rate, tgt)
       IN  /\ Store(s)
           /\ ramp' = [phase |-> "ramp", from_reset |-> ramp.phase = "reset",
                       v0 |-> IF ramp.phase = "reset" THEN ramp.v0 ELSE 0,
                       t |-> tgt, n |-> s.steps_left, adv |-> 0,
                       mix |-> "none", skip |-> 0, start |-> s]
    /\ Record("set_target", tgt, sample_rate, 0)
    /\ block_values' = <<>>
    /\ mapper_calls' = <<>>
    /\ UNCHANGED <<T, oversampling_times, cv, thread_vars, au_vars>>

next ==
    /\ UNCHANGED calls
    /\ LET r == Smoother_next(Self)
       IN  /\ Store(r.self)
           /\ Record("next", 0, 0, r.ret)
    /\ ramp' = IF ramp.phase = "ramp"
               THEN [ramp EXCEPT
                        !.adv = Min2(ramp.adv + 1, ramp.n + 1),
                        !.mix = IF ramp.mix = "none" THEN "next" ELSE ramp.mix]
               ELSE ramp
    /\ block_values' = <<>>
    /\ mapper_calls' = <<>>
    /\ UNCHANGED <<T, oversampling_times, cv, thread_vars, au_vars>>

\* one pull from `smoother.iter()`
iter_next ==
    /\ UNCHANGED calls
    /\ LET r == SmootherIter_next(Smoother_iter(Self))
       IN  /\ Store(r.self)
           /\ item' = r.item
           /\ ret' = IF r.item = None THEN ret ELSE r.item[1]
    /\ previous' = None
    /\ op' = "iter_next"
    /\ arg' = 0
    /\ arg_rate' = 0
    /\ pre' = Self
    /\ ramp' = IF ramp.phase = "ramp"
               THEN [ramp EXCEPT
                        !.adv = Min2(ramp.adv + 1, ramp.n + 1),
                        !.mix = IF ramp.mix = "none" THEN "next" ELSE ramp.mix]
               ELSE ramp
    /\ block_values' = <<>>
    /\ mapper_calls' = <<>>
    /\ UNCHANGED <<T, oversampling_times, cv, thread_vars, au_vars>>

next_step(steps) ==
    /\ UNCHANGED calls
    /\ LET r == Smoother_next_step(Self, steps)
       IN  /\ Store(r.self)
           /\ Record("next_step", steps, 0, r.ret)
    /\ ramp' = IF ramp.phase = "ramp" /\ ramp.mix = "none"
               THEN [ramp EXCEPT
                        !.adv = Min2(steps, ramp.n + 1),
                        !.mix = "skip", !.skip = steps]
               ELSE NoRamp
    /\ block_values' = <<>>
    /\ mapper_calls' = <<>>
    /\ UNCHANGED <<T, oversampling_times, cv, thread_vars, au_vars>>

next_block_exact(len) ==
    /\ LET r == Smoother_next_block_exact(Self, len)
       IN  /\ Store(r.self)
           /\ block_values' = r.block
    /\ mapper_calls' = <<>>
    /\ Record("next_block_exact", len, 0, 0)
    /\ ramp' = NoRamp
    /\ UNCHANGED <<T, oversampling_times, calls, cv, thread_vars, au_vars>>

next_block_exact_mapped(len, m) ==
    /\ LET r == Smoother_next_block_exact_mapped(Self, len, m)
       IN  /\ Store(r.self)
           /\ block_values' = r.block
           /\ mapper_calls' = r.calls
    /\ Record("next_block_exact_mapped", len, m, 0)
    /\ ramp' = NoRamp
    /\ UNCHANGED <<T, oversampling_times, calls, cv, thread_vars, au_vars>>

\* the value the last call returned to the caller, as an Option: the value
\* of next / next_step / a pull, or the last element a block call wrote
LastReturned ==
    CASE op \in {"next", "next_step"} -> Some(ret)
      [] op = "iter_next" -> item
      [] op = "next_block_exact" /\ block_values # <<>> ->
            Some(block_values[Len(block_values)])
      [] OTHER -> None

\* Smoother::previous_value, called after a call that returned a value
previous_value ==
    /\ LastReturned # None
    /\ previous' = Some([ret |-> Smoother_previous_value(Self),
                         last |-> LastReturned[1],
                         pre |-> Self])
    /\ UNCHANGED <<T, smoother_vars, oversampling_times, block_values,
                   mapper_calls, item, op, arg, arg_rate, ret, pre, ramp,
                   calls, cv, thread_vars, au_vars>>

\* the plugin stores a new oversampling factor in the shared atomic
store_oversampling_times(m) ==
    /\ style.oversampling_aware
    /\ m # oversampling_times
    /\ oversampling_times' = m
    /\ UNCHANGED <<T, smoother_vars, call_vars, calls, cv, thread_vars, au_vars>>

Next ==
    \/ \E v \in Values : reset(v)
    \/ \E sr \in SampleRates, v \in Values : set_target(sr, v)
    \/ next
    \/ iter_next
    \/ previous_value
    \/ \E k \in 1..MaxSkip : next_step(k)
    \/ \E len \in 0..MaxLen : next_block_exact(len)
    \/ \E len \in 0..MaxLen, m \in MapperGains :
            next_block_exact_mapped(len, m)
    \/ \E m \in OversamplingFactors : store_oversampling_times(m)

Spec == Init /\ [][Next]_vars

\* ---------------------------------------- a Linear ramp between close values
\* a smoothing time that gives a ramp of several steps at SampleRates
RampTime == 10
\* the start and target values lie up to FineSpan steps of the value grid apart
FineSpan == 3
FineValues == {ONE + k : k \in 0..FineSpan}
FineStyles ==
    {[tag |-> "Linear", time |-> RampTime, oversampling_aware |-> FALSE]}

InitFine == InitStyle(FineStyles) /\ T = "f32" /\ cv = NoCurve

NextFine ==
    \/ \E v \in FineValues : reset(v)
    \/ \E sr \in SampleRates, v \in FineValues : set_target(sr, v)
    \/ next
    \/ \E k \in 1..MaxSkip : next_step(k)
    \/ \E len \in 0..MaxLen : next_block_exact(len)
    \/ \E len \in 0..MaxLen, m \in MapperGains :
            next_block_exact_mapped(len, m)

SpecFine == InitFine /\ [][NextFine]_vars

\* ------------------------------------------------------- the curve on its own
\* start and target values of a curve: the halves up to MaxVal
CurveValues == {v * (SCALE \div 2) : v \in 1..(2 * MaxVal)}

CurveStyles == {st \in Styles : st.tag # "None"}

\* a curve of n steps is set up: step_size(start, target, n)
InitCurve ==
    /\ InitSmoother
    /\ T = "f32"
    /\ style = StyleNone
    /\ \E st \in CurveStyles, start \in CurveValues, tgt \in CurveValues,
          n \in 1..MaxTime :
            cv = [st |-> st, start |-> start, target |-> tgt, n |-> n,
                  step_size |-> SmoothingStyle_step_size(st, start, tgt, n),
                  k |-> 0, value |-> XOf(start), fvalue |-> start]

\* one more application of next(_, target, step_size)
curve_next ==
    /\ cv.k < cv.n
    /\ cv' = [cv EXCEPT
                !.k = @ + 1,
                !.value = SmoothingStyle_next_exact(
                            cv.st, @, XOf(cv.target), XOf(cv.step_size)),
                !.fvalue = SmoothingStyle_next(
                            cv.st, @, cv.target, cv.step_size)]
    /\ UNCHANGED <<T, oversampling_times, smoother_vars, call_vars, calls,
                   thread_vars, au_vars>>

NextCurve == curve_next

SpecCurve == InitCurve /\ [][NextCurve]_vars

\* --------------------------------------------- the AU wrapper's ramp events
\* `buffer_config.max_buffer_size`
max_buffer_size == MaxLen + 1

\* the ramp events a host sends for the parameter: AudioUnitParameterEvent
\* with eventType ramp
AuRamps ==
    [startBufferOffset : (0 - 1)..MaxLen, durationInFrames : 1..MaxTime,
     startValue : {from_p(1)},
     endValue : {from_p(v) : v \in 1..MaxVal}]

\* ScheduleParamRamp::new
ScheduleParamRamp_new(event) ==
    [duration |-> IF event.startBufferOffset < 0
                  THEN 0 - event.startBufferOffset
                  ELSE event.durationInFrames,
     start_value |-> event.startValue,
     end_value |-> event.endValue,
     backup_smoothing_style |-> StyleNone]

\* the immediate events a host sends for the parameter:
\* AudioUnitParameterEvent with eventType immediate
AuImmediates == [bufferOffset : 0..MaxLen, value : {from_p(MaxVal)}]

\* the ramp field of a ScheduledParamEvent::Immediate entry (it has none)
NoParamRamp ==
    [duration |-> 0, start_value |-> 0, end_value |-> 0,
     backup_smoothing_style |-> StyleNone]

\* a schedule kept in the order of arrival instead of the order of the keys
entry_push_Last(events, ev) == Append(events, ev)

\* `scheduled_params.entry(offset).or_default().push(event)`: the map is
\* visited in key order, the events of one key in the order of their push
RECURSIVE entry_push(_, _)
entry_push(events, ev) ==
    IF events = <<>> \/ events[1].offset > ev.offset
    THEN <<ev>> \o events
    ELSE <<events[1]>> \o entry_push(Tail(events), ev)

\* ScheduleParamRamp::init: the ramp with its backup, the smoother it leaves
ScheduleParamRamp_init(this, self, sample_rate) ==
    LET linear == [tag |-> "Linear",
                   time |-> (this.duration * 1000) \div sample_rate,
                   oversampling_aware |-> FALSE]
        replaced == [self EXCEPT !.style = linear]
        was_reset == Smoother_reset(replaced, from_s(T, this.start_value))
    IN  [ramp |-> [this EXCEPT !.backup_smoothing_style = self.style],
         self |-> Smoother_set_target(was_reset, sample_rate,
                                      from_s(T, this.end_value))]

\* Drop for ScheduleParamRamp
ScheduleParamRamp_drop(this, self) ==
    [self EXCEPT !.style = this.backup_smoothing_style]

\* `scheduled_params.clear()`: the events are dropped in the order of the map
RECURSIVE clear(_, _)
clear(events, self) ==
    IF events = <<>> THEN self
    ELSE clear(Tail(events),
               IF events[1].kind = "Ramp"
               THEN ScheduleParamRamp_drop(events[1].ramp, self)
               ELSE self)

\* `create_buffers_and_process(block_start, block_length)`: the plugin reads
\* one smoothed value of the parameter per frame of the sub-block
create_buffers_and_process(r, block_start, block_length) ==
    [r EXCEPT !.self = Smoother_next_block_exact(r.self, block_length).self,
              !.blocks = Append(@, [start |-> block_start,
                                    length |-> block_length]),
              !.log = Append(@, [kind |-> "Process", at |-> block_start,
                                 length |-> block_length])]

\* Wrapper::set_param_impl for a plain value: the parameter takes the value
\* and `param.update_smoother(sample_rate, false)` hands it to set_target
set_param_impl(self, value, sample_rate) ==
    Smoother_set_target(self, sample_rate, from_s(T, value))

\* the body of `for param_event in param_events.iter_mut()` for event i,
\* and `block_start = *block_end`
param_event(processed, i, sample_rate) ==
    LET ev == processed.events[i]
        init == IF ev.kind = "Ramp"
                THEN ScheduleParamRamp_init(ev.ramp, processed.self,
                                            sample_rate)
                ELSE [ramp |-> ev.ramp,
                      self |-> set_param_impl(processed.self, ev.value,
                                              sample_rate)]
    IN  [processed EXCEPT
            !.self = init.self,
            !.events[i].ramp = init.ramp,
            !.applied = Append(@, ev.offset),
            !.log = Append(@, [kind |-> ev.kind, at |-> ev.offset,
                               length |-> 0]),
            !.step_style = init.self.style,
            !.block_start = ev.offset]

\* the loop of render over `scheduled_params.iter_mut()`, from event i on
RECURSIVE render_loop(_, _, _, _)
render_loop(r, i, in_number_frames, sample_rate) ==
    IF i > Len(r.events) \/ r.events[i].offset >= in_number_frames
    THEN r
    ELSE LET block_end == r.events[i].offset
             block_length == block_end - r.block_start
         IN  CHOOSE looped \in
                {render_loop(applied, i + 1, in_number_frames, sample_rate) :
                    applied \in
                        {param_event(processed, i, sample_rate) :
                            processed \in
                                {IF block_length > 0
                                 THEN create_buffers_and_process(
                                            r, r.block_start, block_length)
                                 ELSE r}}} : TRUE

\* Wrapper::render with sample accurate automation: the loop, the rest of
\* the buffer, and the clearing of the schedule
Wrapper_render(self, events, in_number_frames, sample_rate) ==
    CHOOSE returned \in
        {[done EXCEPT !.self = clear(done.events, done.self),
                      !.events = <<>>] :
            done \in
                {IF looped.block_start < in_number_frames
                 THEN create_buffers_and_process(
                            looped, looped.block_start,
                            in_number_frames - looped.block_start)
                 ELSE looped :
                    looped \in
                        {render_loop([self |-> self, events |-> events,
                                      block_start |-> 0, blocks |-> <<>>,
                                      applied |-> <<>>, log |-> <<>>,
                                      step_style |-> self.style],
                                     1, in_number_frames, sample_rate)}}} :
            TRUE

\* the state after construction, nothing scheduled
InitRamp ==
    /\ InitSmoother
    /\ ~style.oversampling_aware
    /\ cv = NoCurve

\* Wrapper::schedule_params with one ramp event for the parameter, ahead of
\* a render call
schedule_params(event) ==
    /\ calls < MaxRenders
    /\ Len(scheduled_params) < MaxEvents
    /\ Abs(event.startBufferOffset) < max_buffer_size
    /\ scheduled_params' =
            entry_push(scheduled_params,
                       [offset |-> Max2(event.startBufferOffset, 0),
                        kind |-> "Ramp", value |-> 0,
                        ramp |-> ScheduleParamRamp_new(event)])
    /\ style_before' = IF scheduled_params = <<>> THEN style ELSE style_before
    /\ UNCHANGED <<T, smoother_vars, oversampling_times, call_vars, calls,
                   cv, thread_vars, rendered>>

\* Wrapper::schedule_params with one immediate event for the parameter: at
\* offset 0 it is applied at once, otherwise it joins the schedule
schedule_params_immediate(event, sample_rate) ==
    /\ calls < MaxRenders
    /\ Len(scheduled_params) < MaxEvents
    /\ event.bufferOffset < max_buffer_size
    /\ LogarithmicContract(Self, from_s(T, event.value))
    /\ IF event.bufferOffset = 0
       THEN /\ Store(set_param_impl(Self, event.value, sample_rate))
            /\ rendered' = [rendered EXCEPT !.step_style = style]
            /\ UNCHANGED scheduled_params
       ELSE /\ scheduled_params' =
                    entry_push(scheduled_params,
                               [offset |-> event.bufferOffset,
                                kind |-> "Immediate", value |-> event.value,
                                ramp |-> NoParamRamp])
            /\ UNCHANGED <<smoother_vars, rendered>>
    /\ style_before' = IF scheduled_params = <<>> THEN style ELSE style_before
    /\ UNCHANGED <<T, oversampling_times, call_vars, calls, cv, thread_vars>>

\* Wrapper::render of in_number_frames frames
render(in_number_frames, sample_rate) ==
    /\ calls < MaxRenders
    /\ calls' = calls + 1
    /\ \E r \in {Wrapper_render(Self, scheduled_params, in_number_frames,
                                sample_rate)} :
           /\ Store(r.self)
           /\ scheduled_params' = r.events
           /\ rendered' = [frames |-> in_number_frames, blocks |-> r.blocks,
                           applied |-> r.applied, log |-> r.log,
                           schedule |-> [i \in 1..Len(scheduled_params) |->
                                            scheduled_params[i].offset],
                           left |-> Len(r.events),
                           step_style |-> IF r.applied = <<>>
                                          THEN rendered.step_style
                                          ELSE r.step_style]
    /\ Record("render", in_number_frames, sample_rate, 0)
    /\ block_values' = <<>>
    /\ mapper_calls' = <<>>
    /\ ramp' = NoRamp
    /\ UNCHANGED <<T, oversampling_times, cv, thread_vars, style_before>>

NextRamp ==
    \/ \E event \in AuRamps : schedule_params(event)
    \/ \E event \in AuImmediates, sr \in SampleRates :
            schedule_params_immediate(event, sr)
    \/ \E n \in 1..max_buffer_size, sr \in SampleRates : render(n, sr)

SpecRamp == InitRamp /\ [][NextRamp]_vars

\* ------------------------------------------- the block calls on a buffer
\* An integer parameter whose target may lie beyond the integers f32 holds
\* exactly, and the block calls on buffers longer than the block.

\* the targets of set_target: the values of Values, and the first integer
\* that is not a value of f32
BlockTargets == Values \cup {MaxExactInt + 1}

\* the caller's buffer before a block call: element i holds -i
Buffer(buffer_len) == [i \in 1..buffer_len |-> 0 - i]

\* `&mut block_values[..block_len]` is written, the rest of the buffer is
\* not part of the slice
with_slice(buffer, block) ==
    block \o SubSeq(buffer, Len(block) + 1, Len(buffer))

InitBlock ==
    /\ InitSmoother
    /\ T = "i32"
    /\ style.tag \in {"None", "Linear"}
    /\ ~style.oversampling_aware
    /\ cv = NoCurve

\* Smoother::next_block on a buffer of buffer_len elements; the call panics
\* if block_len > block_values.len()
next_block(buffer_len, block_len) ==
    /\ block_len <= buffer_len
    /\ LET r == Smoother_next_block_exact(Self, block_len)
       IN  /\ Store(r.self)
           /\ block_values' = with_slice(Buffer(buffer_len), r.block)
    /\ mapper_calls' = <<>>
    /\ Record("next_block", block_len, 0, 0)
    /\ ramp' = NoRamp
    /\ UNCHANGED <<T, oversampling_times, calls, cv, thread_vars, au_vars>>

\* Smoother::next_block_mapped on a buffer of buffer_len elements
next_block_mapped(buffer_len, block_len, m) ==
    /\ block_len <= buffer_len
    /\ LET r == Smoother_next_block_mapped(Self, block_len, m)
       IN  /\ Store(r.self)
           /\ block_values' = with_slice(Buffer(buffer_len), r.block)
           /\ mapper_calls' = r.calls
    /\ Record("next_block_mapped", block_len, m, 0)
    /\ ramp' = NoRamp
    /\ UNCHANGED <<T, oversampling_times, calls, cv, thread_vars, au_vars>>

NextBlock ==
    \/ \E sr \in SampleRates, tgt \in BlockTargets :
            \* a Linear step towards a target beyond MaxVal is not computed
            /\ \/ tgt \in Values
               \/ style.tag = "None"
               \/ SmoothingStyle_num_steps(style, sr) = 0
            /\ set_target(sr, tgt)
    \/ \E v \in Values : reset(v)
    \/ next
    \/ \E k \in 1..MaxSkip : next_step(k)
    \/ \E len \in 0..MaxLen : next_block_exact(len)
    \/ \E len \in 0..MaxLen, m \in MapperGains :
            next_block_exact_mapped(len, m)
    \/ \E n \in 0..MaxLen, len \in 0..MaxLen : next_block(n, len)
    \/ \E n \in 0..MaxLen, len \in 0..MaxLen, m \in MapperGains :
            next_block_mapped(n, len, m)

SpecBlock == InitBlock /\ [][NextBlock]_vars

\* ------------------------------------------------- two threads, step by step
\* The audio thread calls next / next_step / next_block_exact while one
\* producer thread calls reset / set_target on the same smoother.  Every
\* action is one atomic access of the code, with the thread-local
\* computation that follows it.

\* Logarithmic is left to the whole-call specification: a stale step size of
\* zero multiplied into `current` makes its step size a division by zero.
ConcStyles == {st \in Styles : st.tag # "Logarithmic"}

InitConc ==
    /\ InitSmoother
    /\ style \in ConcStyles
    /\ cv = NoCurve

conc_frame == <<T, style, call_vars, cv, au_vars, style_borrow>>

\* an audio call starts: it will load the target of the set_target numbered
\* pub.target_by (0: of a reset or of the constructor), it starts with the
\* producer idle or not, and a set_target that landed is no longer the
\* latest thing that happened
AudioStart(name, n) ==
    /\ audio' = [ALocals EXCEPT !.op = name, !.arg = n, !.target = target,
                                !.awaits = pub.target_by,
                                !.quiet = (ppc = "idle")]
    /\ pub' = [pub EXCEPT !.landed = FALSE, !.target = 0, !.steps_left = 0,
                          !.step_size = 0]

\* the audio thread returns r (and the slice b) to its caller
AudioReturn(r, b) ==
    /\ apc' = "idle"
    /\ audio' = [ALocals EXCEPT !.op = audio.op, !.arg = audio.arg,
                                !.ret = r, !.block = b]

\* next: `T::atomic_load(&self.target)`
next_load_target ==
    /\ apc = "idle"
    /\ apc' = "load_steps_left"
    /\ AudioStart("next", 1)
    /\ UNCHANGED <<conc_frame, smoother_vars, oversampling_times, calls,
                   ppc, producer>>

\* next_step: `T::atomic_load(&self.target)`
next_step_load_target(steps) ==
    /\ apc = "idle"
    /\ apc' = "load_steps_left"
    /\ AudioStart("next_step", steps)
    /\ UNCHANGED <<conc_frame, smoother_vars, oversampling_times, calls,
                   ppc, producer>>

\* next / next_step: `if self.steps_left.load() > 0`, else return target
next_load_steps_left ==
    /\ apc = "load_steps_left"
    /\ audio.op \in {"next", "next_step"}
    /\ IF steps_left > 0
       THEN /\ apc' = "load_current"
            /\ audio' = [audio EXCEPT !.steps_left = steps_left]
       ELSE AudioReturn(audio.target, <<>>)
    /\ UNCHANGED <<conc_frame, pub, smoother_vars, oversampling_times, calls,
                   ppc, producer>>

\* next / next_step / next_block_exact: `S::atomic_load(&self.current)`
audio_load_current ==
    /\ apc = "load_current"
    /\ apc' = "load_step_size"
    /\ audio' = [audio EXCEPT !.current = current]
    /\ UNCHANGED <<conc_frame, pub, smoother_vars, oversampling_times, calls,
                   ppc, producer>>

\* next / next_step: `S::atomic_load(&self.step_size)`
next_load_step_size ==
    /\ apc = "load_step_size"
    /\ audio.op \in {"next", "next_step"}
    /\ apc' = "fetch_sub"
    /\ audio' = [audio EXCEPT !.step_size = step_size,
                              !.stale = pub.step_size_by < audio.awaits,
                              !.ahead = pub.step_size_by > audio.awaits]
    /\ UNCHANGED <<conc_frame, pub, smoother_vars, oversampling_times, calls,
                   ppc, producer>>

\* next / next_step: `self.steps_left.fetch_sub(steps)` and the choice of
\* `new` on the value it returns
next_fetch_sub ==
    /\ apc = "fetch_sub"
    /\ LET old_steps_left == steps_left
           target_s == to_s(T, audio.target)
           last == IF audio.op = "next" THEN old_steps_left = 1
                   ELSE old_steps_left <= audio.arg
       IN  /\ steps_left' = steps_left - audio.arg
           /\ apc' = IF last THEN "store_zero" ELSE "store_current"
           /\ audio' = [audio EXCEPT !.new =
                IF last THEN target_s
                ELSE IF audio.op = "next"
                THEN SmoothingStyle_next(style, audio.current, target_s,
                                         audio.step_size)
                ELSE SmoothingStyle_next_step(style, audio.current, target_s,
                                              audio.step_size, audio.arg)]
           /\ pub' = IF ~last /\ audio.op = "next" /\ audio.stale
                        /\ audio.awaits = pub.target_by
                     THEN [pub EXCEPT !.stale = @ + 1]
                     ELSE pub
    /\ UNCHANGED <<conc_frame, step_size, current, target,
                   oversampling_times, calls, ppc, producer>>

\* next / next_step: `self.steps_left.store(0)`
next_store_zero ==
    /\ apc = "store_zero"
    /\ apc' = "store_current"
    /\ steps_left' = 0
    /\ UNCHANGED <<conc_frame, pub, step_size, current, target,
                   oversampling_times, calls, audio, ppc, producer>>

\* next / next_step that stores the value it returns in `target` as well
next_store_current_StoresTarget ==
    /\ apc = "store_current"
    /\ audio.op \in {"next", "next_step"}
    /\ current' = audio.new
    /\ target' = from_s(T, audio.new)
    /\ AudioReturn(from_s(T, audio.new), <<>>)
    /\ UNCHANGED <<conc_frame, pub, steps_left, step_size,
                   oversampling_times, calls, ppc, producer>>

\* next / next_step: `S::atomic_store(&self.current, new)`; return
next_store_current ==
    /\ apc = "store_current"
    /\ audio.op \in {"next", "next_step"}
    /\ current' = audio.new
    /\ AudioReturn(from_s(T, audio.new), <<>>)
    /\ UNCHANGED <<conc_frame, pub, steps_left, step_size, target,
                   oversampling_times, calls, ppc, producer>>

\* the smoother as the audio thread has loaded it
AudioSnapshot ==
    [style |-> style, steps_left |-> audio.steps_left,
     step_size |-> audio.step_size, current |-> audio.current,
     target |-> audio.target]

\* `block_values.len().min(steps_left as usize)` on the loaded counter
AudioNumSmoothedValues ==
    IF audio.steps_left < 0 THEN audio.arg
    ELSE Min2(audio.arg, audio.steps_left)

\* next_block_exact: `T::atomic_load(&self.target)`.  A counter that has
\* fallen to -MaxLen is followed no further.
next_block_exact_load_target(len) ==
    /\ apc = "idle"
    /\ steps_left > 0 - MaxLen
    /\ apc' = "block_load_steps_left"
    /\ AudioStart("next_block_exact", len)
    /\ UNCHANGED <<conc_frame, smoother_vars, oversampling_times, calls,
                   ppc, producer>>

\* next_block_exact: `self.steps_left.load() as usize`; with nothing to
\* smooth the slice is filled with the target
next_block_exact_load_steps_left ==
    /\ apc = "block_load_steps_left"
    /\ LET loaded == [audio EXCEPT !.steps_left = steps_left]
           n == IF steps_left < 0 THEN audio.arg
                ELSE Min2(audio.arg, steps_left)
       IN  IF n > 0
           THEN /\ apc' = "load_current"
                /\ audio' = loaded
           ELSE AudioReturn(0, [i \in 1..audio.arg |-> audio.target])
    /\ UNCHANGED <<conc_frame, pub, smoother_vars, oversampling_times, calls,
                   ppc, producer>>

\* next_block_exact: `S::atomic_load(&self.step_size)` and the filling of
\* the slice from the loaded values
next_block_exact_load_step_size ==
    /\ apc = "load_step_size"
    /\ audio.op = "next_block_exact"
    /\ apc' = "block_store_current"
    /\ LET loaded == [audio EXCEPT !.step_size = step_size]
           r == Smoother_next_block_exact(
                    [AudioSnapshot EXCEPT !.step_size = step_size],
                    loaded.arg)
       IN  audio' = [loaded EXCEPT !.new = r.self.current, !.block = r.block]
    /\ UNCHANGED <<conc_frame, pub, smoother_vars, oversampling_times, calls,
                   ppc, producer>>

\* next_block_exact: `S::atomic_store(&self.current, current)`
next_block_exact_store_current ==
    /\ apc = "block_store_current"
    /\ apc' = "block_fetch_sub"
    /\ current' = audio.new
    /\ UNCHANGED <<conc_frame, pub, steps_left, step_size, target,
                   oversampling_times, calls, audio, ppc, producer>>

\* next_block_exact: `self.steps_left.fetch_sub(num_smoothed_values)`; return
next_block_exact_fetch_sub ==
    /\ apc = "block_fetch_sub"
    /\ steps_left' = steps_left - AudioNumSmoothedValues
    /\ AudioReturn(0, audio.block)
    /\ UNCHANGED <<conc_frame, pub, step_size, current, target,
                   oversampling_times, calls, ppc, producer>>

\* the producer thread returns to its caller
ProducerReturn ==
    /\ ppc' = "idle"
    /\ producer' = PLocals

\* reset: `T::atomic_store(&self.target, value)`
reset_store_target(value) ==
    /\ ppc = "idle"
    /\ calls < MaxCalls
    /\ calls' = calls + 1
    /\ ppc' = "reset_store_current"
    /\ producer' = [PLocals EXCEPT !.op = "reset", !.value = value]
    /\ target' = value
    /\ pub' = [NoPub EXCEPT !.step_size_by = pub.step_size_by]
    /\ UNCHANGED <<conc_frame, steps_left, step_size, current,
                   oversampling_times, apc, audio>>

\* reset: `S::atomic_store(&self.current, value.to_s())`
reset_store_current ==
    /\ ppc = "reset_store_current"
    /\ ppc' = "reset_store_steps_left"
    /\ current' = to_s(T, producer.value)
    /\ UNCHANGED <<conc_frame, pub, steps_left, step_size, target,
                   oversampling_times, calls, apc, audio, producer>>

\* reset: `self.steps_left.store(0)`; return
reset_store_steps_left ==
    /\ ppc = "reset_store_steps_left"
    /\ steps_left' = 0
    /\ ProducerReturn
    /\ UNCHANGED <<conc_frame, pub, step_size, current, target,
                   oversampling_times, calls, apc, audio>>

\* set_target: `T::atomic_store(&self.target, target)`
set_target_store_target(sample_rate, tgt) ==
    /\ ppc = "idle"
    /\ calls < MaxCalls
    /\ calls' = calls + 1
    /\ ppc' = "set_target_store_steps_left"
    /\ producer' = [PLocals EXCEPT !.op = "set_target", !.value = tgt,
                                   !.sample_rate = sample_rate]
    /\ target' = tgt
    /\ LET landed == apc # "idle" /\ audio.op = "next"
       IN  pub' = [NoPub EXCEPT !.target_by = calls + 1,
                                !.step_size_by = pub.step_size_by,
                                !.landed = landed,
                                !.target = IF landed THEN tgt ELSE 0]
    /\ UNCHANGED <<conc_frame, steps_left, step_size, current,
                   oversampling_times, apc, audio>>

\* set_target that stores the step size together with the countdown, from
\* the current value of that moment
set_target_store_steps_left_AndStepSize ==
    /\ ppc = "set_target_store_steps_left"
    /\ ppc' = "set_target_load_current"
    /\ LET n == SmoothingStyle_num_steps(style, producer.sample_rate)
       IN  /\ steps_left' = n
           /\ step_size' = IF n > 0
                           THEN SmoothingStyle_step_size(
                                    style, current, to_s(T, producer.value), n)
                           ELSE ZERO
           /\ producer' = [producer EXCEPT !.steps_left = n]
           /\ pub' = IF pub.landed THEN [pub EXCEPT !.steps_left = n] ELSE pub
    /\ UNCHANGED <<conc_frame, current, target,
                   oversampling_times, calls, apc, audio>>

\* set_target: `self.steps_left.store(num_steps(sample_rate) as i32)`
set_target_store_steps_left ==
    /\ ppc = "set_target_store_steps_left"
    /\ ppc' = "set_target_load_current"
    /\ LET n == SmoothingStyle_num_steps(style, producer.sample_rate)
       IN  /\ steps_left' = n
           /\ producer' = [producer EXCEPT !.steps_left = n]
           /\ pub' = IF pub.landed THEN [pub EXCEPT !.steps_left = n] ELSE pub
    /\ UNCHANGED <<conc_frame, step_size, current, target,
                   oversampling_times, calls, apc, audio>>

\* set_target: `S::atomic_load(&self.current)`
set_target_load_current ==
    /\ ppc = "set_target_load_current"
    /\ ppc' = "set_target_store_step_size"
    /\ producer' = [producer EXCEPT !.current = current]
    /\ UNCHANGED <<conc_frame, pub, smoother_vars, oversampling_times, calls,
                   apc, audio>>

\* set_target that returns without storing the step size
set_target_store_step_size_Skipped ==
    /\ ppc = "set_target_store_step_size"
    /\ ProducerReturn
    /\ UNCHANGED <<conc_frame, pub, smoother_vars,
                   oversampling_times, calls, apc, audio>>

\* set_target: `S::atomic_store(&self.step_size, ..)`; return
set_target_store_step_size ==
    /\ ppc = "set_target_store_step_size"
    /\ step_size' =
            IF producer.steps_left > 0
            THEN SmoothingStyle_step_size(style, producer.current,
                                          to_s(T, producer.value),
                                          producer.steps_left)
            ELSE ZERO
    /\ pub' = [pub EXCEPT !.step_size_by = pub.target_by,
                          !.step_size = IF pub.landed THEN step_size' ELSE 0]
    /\ ProducerReturn
    /\ UNCHANGED <<conc_frame, steps_left, current, target,
                   oversampling_times, calls, apc, audio>>

NextConc ==
    \/ next_load_target
    \/ \E k \in 1..MaxSkip : next_step_load_target(k)
    \/ next_load_steps_left
    \/ audio_load_current
    \/ next_load_step_size
    \/ next_fetch_sub
    \/ next_store_zero
    \/ next_store_current
    \/ \E len \in 0..MaxLen : next_block_exact_load_target(len)
    \/ next_block_exact_load_steps_left
    \/ next_block_exact_load_step_size
    \/ next_block_exact_store_current
    \/ next_block_exact_fetch_sub
    \/ \E v \in Values : reset_store_target(v)
    \/ reset_store_current
    \/ reset_store_steps_left
    \/ \E sr \in SampleRates, v \in Values : set_target_store_target(sr, v)
    \/ set_target_store_steps_left
    \/ set_target_load_current
    \/ set_target_store_step_size

SpecConc == InitConc /\ [][NextConc]_vars

\* ----------------------------------------------------- a ramp comes to its end
\* The audio thread calls next() sample after sample while the producer calls
\* set_target MaxCalls times on a Linear smoother; one atomic access per
\* action, as above.

LiveStyles == {st \in ConcStyles : st.tag = "Linear" /\ ~st.oversampling_aware}

InitLive ==
    /\ InitConc
    /\ T = "f32"
    /\ style \in LiveStyles

\* one atomic access of a next() call
AudioNext ==
    \/ next_load_target
    \/ next_load_steps_left
    \/ audio_load_current
    \/ next_load_step_size
    \/ next_fetch_sub
    \/ next_store_zero
    \/ next_store_current

\* one atomic access of a set_target call that has started
SetTargetUnderWay ==
    \/ set_target_store_steps_left
    \/ set_target_load_current
    \/ set_target_store_step_size

NextLive ==
    \/ AudioNext
    \/ \E sr \in SampleRates, v \in Values : set_target_store_target(sr, v)
    \/ SetTargetUnderWay

\* the host calls process for every buffer and the plugin calls next() for
\* every sample: the audio thread always takes its next step; a call of the
\* producer that has started runs to its end
SpecLive ==
    /\ InitLive
    /\ [][NextLive]_vars
    /\ WF_vars(AudioNext)
    /\ WF_vars(SetTargetUnderWay)

\* ------------------------------------------- the borrows of the style cell
\* The render thread applies a ramp to the parameter (init, the plugin's
\* next() calls, drop) while a producer thread calls set_target on the same
\* smoother.  Every action ends where a borrow of the style is taken or
\* given back; the atomic accesses between two such points are one action.

\* no thread has panicked
Running == style_borrow.panic = "none"

\* AtomicRefCell::borrow by thread who: one more shared borrow, a panic
\* while the exclusive borrow is held
borrow(who) ==
    style_borrow' = IF style_borrow.exclusive
                    THEN [style_borrow EXCEPT !.panic = who]
                    ELSE [style_borrow EXCEPT !.shared = @ + 1]

\* the AtomicRef goes out of scope
borrow_end == style_borrow' = [style_borrow EXCEPT !.shared = @ - 1]

\* AtomicRefCell::borrow_mut by thread who: the exclusive borrow, a panic
\* while any borrow is held
borrow_mut(who) ==
    style_borrow' = IF style_borrow.exclusive \/ style_borrow.shared > 0
                    THEN [style_borrow EXCEPT !.panic = who]
                    ELSE [style_borrow EXCEPT !.exclusive = TRUE]

\* the AtomicRefMut goes out of scope
borrow_mut_end == style_borrow' = [style_borrow EXCEPT !.exclusive = FALSE]

\* the styles whose step is a difference: the conflict is in the borrows,
\* whatever the arithmetic done under them
BorrowStyles ==
    {st \in ConcStyles :
        ~st.oversampling_aware /\ st.tag \in {"None", "Linear"}}

InitBorrow ==
    /\ InitSmoother
    /\ T = "f32"
    /\ style \in BorrowStyles
    /\ cv = NoCurve

\* what no action of this specification changes
borrow_frame == <<T, oversampling_times, call_vars, cv, pub, style_before>>

\* the ramp the render thread is applying
TheRamp == scheduled_params[1].ramp

\* ScheduleParamRamp::init: `smoothed.style.as_ref().borrow()`
init_borrow(sample_rate) ==
    /\ Running
    /\ apc = "idle"
    /\ scheduled_params # <<>>
    /\ rendered.applied = <<>>
    /\ apc' = "init_clone"
    /\ audio' = [ALocals EXCEPT !.op = "init", !.arg = sample_rate]
    /\ borrow("audio")
    /\ UNCHANGED <<borrow_frame, smoother_vars, calls, ppc, producer,
                   scheduled_params, rendered>>

\* ScheduleParamRamp::init: `self.backup_smoothing_style = ...clone()`
init_clone ==
    /\ Running
    /\ apc = "init_clone"
    /\ apc' = "init_borrow_mut"
    /\ scheduled_params' =
            [scheduled_params EXCEPT ![1].ramp.backup_smoothing_style = style]
    /\ borrow_end
    /\ UNCHANGED <<borrow_frame, smoother_vars, calls, audio, ppc, producer,
                   rendered>>

\* ScheduleParamRamp::init: `smoothed.style.as_ref().borrow_mut()`
init_borrow_mut ==
    /\ Running
    /\ apc = "init_borrow_mut"
    /\ apc' = "init_store_style"
    /\ borrow_mut("audio")
    /\ UNCHANGED <<borrow_frame, smoother_vars, calls, audio, ppc, producer,
                   scheduled_params, rendered>>

\* ScheduleParamRamp::init: `* = SmoothingStyle::Linear(..)`, then
\* `smoothed.reset(self.start_value)`
init_store_style ==
    /\ Running
    /\ apc = "init_store_style"
    /\ apc' = "init_set_target"
    /\ LET linear == [tag |-> "Linear",
                      time |-> (TheRamp.duration * 1000) \div audio.arg,
                      oversampling_aware |-> FALSE]
       IN  Store(Smoother_reset([Self EXCEPT !.style = linear],
                                from_s(T, TheRamp.start_value)))
    /\ borrow_mut_end
    /\ UNCHANGED <<borrow_frame, calls, audio, ppc, producer,
                   scheduled_params, rendered>>

\* set_target called by init: the store of target, and
\* `self.style.0.borrow()` for num_steps
init_set_target ==
    /\ Running
    /\ apc = "init_set_target"
    /\ apc' = "init_num_steps"
    /\ target' = from_s(T, TheRamp.end_value)
    /\ borrow("audio")
    /\ UNCHANGED <<borrow_frame, style, steps_left, step_size, current, calls,
                   audio, ppc, producer, scheduled_params, rendered>>

\* set_target called by init: num_steps, the store of steps_left, the load
\* of current
init_num_steps ==
    /\ Running
    /\ apc = "init_num_steps"
    /\ LET n == SmoothingStyle_num_steps(style, audio.arg)
       IN  /\ steps_left' = n
           /\ audio' = [audio EXCEPT !.steps_left = n, !.current = current]
           /\ apc' = IF n > 0 THEN "init_borrow_step_size"
                     ELSE "init_store_zero"
    /\ borrow_end
    /\ UNCHANGED <<borrow_frame, style, step_size, current, target, calls,
                   ppc, producer, scheduled_params, rendered>>

\* set_target called by init: `self.style.0.borrow()` for step_size
init_borrow_step_size ==
    /\ Running
    /\ apc = "init_borrow_step_size"
    /\ apc' = "init_step_size"
    /\ borrow("audio")
    /\ UNCHANGED <<borrow_frame, smoother_vars, calls, audio, ppc, producer,
                   scheduled_params, rendered>>

\* set_target called by init: the store of step_size; init returns
init_step_size ==
    /\ Running
    /\ apc \in {"init_step_size", "init_store_zero"}
    /\ apc' = "idle"
    /\ audio' = ALocals
    /\ step_size' = IF apc = "init_step_size"
                    THEN SmoothingStyle_step_size(
                            style, audio.current, to_s(T, target),
                            audio.steps_left)
                    ELSE ZERO
    /\ IF apc = "init_step_size" THEN borrow_end ELSE UNCHANGED style_borrow
    /\ rendered' = [rendered EXCEPT !.applied = <<0>>]
    /\ UNCHANGED <<borrow_frame, style, steps_left, current, target, calls,
                   ppc, producer, scheduled_params>>

\* next() of the plugin, up to `self.style.0.borrow()`: the loads and the
\* fetch_sub; with one step left it snaps and returns without a borrow
next_borrow ==
    /\ Running
    /\ apc = "idle"
    /\ steps_left > 0
    /\ IF steps_left = 1
       THEN /\ Store(Smoother_next(Self).self)
            /\ UNCHANGED <<apc, audio, style_borrow>>
       ELSE /\ apc' = "next_style"
            /\ audio' = [ALocals EXCEPT !.op = "next", !.target = target,
                                        !.current = current,
                                        !.step_size = step_size]
            /\ steps_left' = steps_left - 1
            /\ borrow("audio")
            /\ UNCHANGED <<style, step_size, current, target>>
    /\ UNCHANGED <<borrow_frame, calls, ppc, producer, scheduled_params,
                   rendered>>

\* next(): `.next(current, target_s, step_size)` on the borrowed style, the
\* store of current
next_style ==
    /\ Running
    /\ apc = "next_style"
    /\ apc' = "idle"
    /\ audio' = ALocals
    /\ current' = SmoothingStyle_next(style, audio.current,
                                      to_s(T, audio.target), audio.step_size)
    /\ borrow_end
    /\ UNCHANGED <<borrow_frame, style, steps_left, step_size, target, calls,
                   ppc, producer, scheduled_params, rendered>>

\* Drop for ScheduleParamRamp in `scheduled_params.clear()`:
\* `smoothed.style.as_ref().borrow_mut()`
drop_borrow_mut ==
    /\ Running
    /\ apc = "idle"
    /\ scheduled_params # <<>>
    /\ apc' = "drop_store_style"
    /\ borrow_mut("audio")
    /\ UNCHANGED <<borrow_frame, smoother_vars, calls, audio, ppc, producer,
                   scheduled_params, rendered>>

\* Drop for ScheduleParamRamp: `* = self.backup_smoothing_style.clone()`;
\* the ramp is gone and render returns
drop_store_style ==
    /\ Running
    /\ apc = "drop_store_style"
    /\ apc' = "idle"
    /\ style' = TheRamp.backup_smoothing_style
    /\ scheduled_params' = Tail(scheduled_params)
    /\ rendered' = [rendered EXCEPT !.frames = 1]
    /\ borrow_mut_end
    /\ UNCHANGED <<borrow_frame, steps_left, step_size, current, target,
                   calls, audio, ppc, producer>>

\* set_target on the producer thread: the store of target, and
\* `self.style.0.borrow()` for num_steps
producer_set_target(sample_rate, tgt) ==
    /\ Running
    /\ ppc = "idle"
    /\ calls < MaxCalls
    /\ calls' = calls + 1
    /\ ppc' = "producer_num_steps"
    /\ producer' = [PLocals EXCEPT !.op = "set_target", !.value = tgt,
                                   !.sample_rate = sample_rate]
    /\ target' = tgt
    /\ borrow("producer")
    /\ UNCHANGED <<borrow_frame, style, steps_left, step_size, current,
                   apc, audio, scheduled_params, rendered>>

\* set_target on the producer thread: num_steps, the store of steps_left,
\* the load of current
producer_num_steps ==
    /\ Running
    /\ ppc = "producer_num_steps"
    /\ LET n == SmoothingStyle_num_steps(style, producer.sample_rate)
       IN  /\ steps_left' = n
           /\ producer' = [producer EXCEPT !.steps_left = n,
                                           !.current = current]
           /\ ppc' = IF n > 0 THEN "producer_borrow_step_size"
                     ELSE "producer_store_zero"
    /\ borrow_end
    /\ UNCHANGED <<borrow_frame, style, step_size, current, target, calls,
                   apc, audio, scheduled_params, rendered>>

\* set_target on the producer thread: `self.style.0.borrow()` for step_size
producer_borrow_step_size ==
    /\ Running
    /\ ppc = "producer_borrow_step_size"
    /\ ppc' = "producer_step_size"
    /\ borrow("producer")
    /\ UNCHANGED <<borrow_frame, smoother_vars, calls, apc, audio, producer,
                   scheduled_params, rendered>>

\* set_target on the producer thread: the store of step_size; return
producer_step_size ==
    /\ Running
    /\ ppc \in {"producer_step_size", "producer_store_zero"}
    /\ step_size' = IF ppc = "producer_step_size"
                    THEN SmoothingStyle_step_size(
                            style, producer.current, to_s(T, producer.value),
                            producer.steps_left)
                    ELSE ZERO
    /\ IF ppc = "producer_step_size" THEN borrow_end
       ELSE UNCHANGED style_borrow
    /\ ProducerReturn
    /\ UNCHANGED <<borrow_frame, style, steps_left, current, target, calls,
                   apc, audio, scheduled_params, rendered>>

NextBorrow ==
    \/ \E event \in AuRamps :
            /\ Running
            /\ event.startBufferOffset = 0
            /\ scheduled_params = <<>>
            /\ rendered = NotRendered
            /\ schedule_params(event)
    \/ \E sr \in SampleRates : init_borrow(sr)
    \/ init_clone
    \/ init_borrow_mut
    \/ init_store_style
    \/ init_set_target
    \/ init_num_steps
    \/ init_borrow_step_size
    \/ init_step_size
    \/ next_borrow
    \/ next_style
    \/ drop_borrow_mut
    \/ drop_store_style
    \/ \E sr \in SampleRates, v \in Values : producer_set_target(sr, v)
    \/ producer_num_steps
    \/ producer_borrow_step_size
    \/ producer_step_size

SpecBorrow == InitBorrow /\ [][NextBorrow]_vars

\* ------------------------------------------------------------------ claims
\* n sequential next() calls: the smoother they leave, the values they return
RECURSIVE NextTimes(_, _)
NextTimes(self, n) ==
    IF n <= 0 THEN [self |-> self, vals |-> <<>>]
    ELSE LET r == Smoother_next(self)
             rest == NextTimes(r.self, n - 1)
         IN  [self |-> rest.self, vals |-> <<r.ret>> \o rest.vals]

\* a run reset(v0); set_target(_, t); next(); next(); ... with t # v0
CleanRamp ==
    /\ ramp.phase = "ramp"
    /\ ramp.from_reset
    /\ ramp.mix = "next"
    /\ ramp.t # ramp.v0
    /\ ramp.n >= 1

\* the Linear step (t - v0) / n and every partial sum are exact, and for an
\* integer smoother the step is a whole number
ExactLinearRamp ==
    /\ style.tag = "Linear"
    /\ (to_s(T, ramp.t) - to_s(T, ramp.v0)) %
            (IF T = "i32" THEN from_p(ramp.n) ELSE ramp.n) = 0

\* C1 as stated: after reset(v0); set_target(_, t) with t # v0 the N-th
\* next() returns exactly t and the (N-1)-th next() returns a value
\* different from t.
C1_ConvergenceAsStated ==
    CleanRamp =>
        /\ ramp.adv = ramp.n => ret = ramp.t
        /\ (ramp.adv = ramp.n - 1 /\ ramp.adv >= 1) => ret # ramp.t

\* C1 amended: the N-th next() returns exactly t and ends the ramp, no
\* earlier call ends it (after k < N calls steps_left = N - k), and the
\* (N-1)-th call returns a value different from t when the ramp is Linear
\* and its steps are exact.
C1_Convergence ==
    CleanRamp =>
        /\ ramp.adv = ramp.n =>
                ret = ramp.t /\ steps_left = 0 /\ current = to_s(T, ramp.t)
        /\ ramp.adv < ramp.n => steps_left = ramp.n - ramp.adv
        /\ (ramp.adv = ramp.n - 1 /\ ramp.adv >= 1 /\ ExactLinearRamp) =>
                ret # ramp.t

C1_Witness ==
    /\ CleanRamp
    /\ ramp.n >= 2
    /\ ramp.adv = ramp.n
    /\ ret = ramp.t
    /\ style.tag # "None"

\* C2: next_block_exact on a slice of length L writes what L sequential
\* next() calls return and leaves the smoother as they leave it.
C2_BlockEquivalence ==
    (op = "next_block_exact" /\ pre.steps_left >= 0) =>
        LET ref == NextTimes(pre, arg)
        IN  /\ Len(block_values) = arg
            /\ block_values = ref.vals
            /\ Self = ref.self

C2_Witness ==
    /\ op = "next_block_exact"
    /\ pre.steps_left >= 2
    /\ arg > pre.steps_left
    /\ pre.current # to_s(T, pre.target)

\* C3: with steps_left = 0, next() returns target and changes no field.
C3_NoSmoothingIdempotence ==
    (op = "next" /\ pre.steps_left = 0) =>
        /\ ret = pre.target
        /\ Self = pre
        /\ NextTimes(Self, 2).vals = <<target, target>>
        /\ NextTimes(Self, 2).self = Self

C3_Witness ==
    /\ op = "next"
    /\ pre.steps_left = 0
    /\ calls >= 1
    /\ ret = target

\* C4: whenever steps_left = 0, current equals target and previous_value()
\* equals what next() returns.
C4_CurrentIsTargetWhenIdle ==
    steps_left = 0 =>
        /\ current = to_s(T, target)
        /\ Smoother_previous_value(Self) = Smoother_next(Self).ret

\* C7: next_step(k) followed by n - k next() calls leaves the smoother and
\* returns the value that n next() calls do; next_step(k) with k below the
\* countdown lowers it by exactly k; next_step(1) is next().
C7_SkipEquivalence ==
    /\ (ramp.phase = "ramp" /\ ramp.mix = "skip" /\ ramp.skip <= ramp.n
            /\ ramp.adv = ramp.n) =>
            LET ref == NextTimes(ramp.start, ramp.n)
            IN  /\ Self = ref.self
                /\ steps_left = 0
                /\ ret = ref.vals[ramp.n]
    /\ (op = "next_step" /\ arg < pre.steps_left) =>
            steps_left = pre.steps_left - arg
    /\ (op = "next_step" /\ arg = 1) =>
            [self |-> Self, ret |-> ret] = Smoother_next(pre)

C7_Witness ==
    /\ ramp.phase = "ramp"
    /\ ramp.mix = "skip"
    /\ ramp.skip >= 2
    /\ ramp.skip < ramp.n
    /\ ramp.adv = ramp.n
    /\ op = "next"

\* C8: next_step(steps) with steps >= steps_left > 0 returns exactly target,
\* sets current to target and leaves steps_left = 0.
C8_SkipPastEnd ==
    (op = "next_step" /\ pre.steps_left > 0 /\ arg >= pre.steps_left) =>
        /\ ret = pre.target
        /\ current = to_s(T, pre.target)
        /\ steps_left = 0

C8_Witness ==
    /\ op = "next_step"
    /\ pre.steps_left > 0
    /\ arg > pre.steps_left
    /\ pre.current # to_s(T, pre.target)

\* C9: reset(value) sets target and current to value and steps_left to 0;
\* the following next() returns value without interpolating.
C9_Reset ==
    /\ op = "reset" =>
            /\ target = arg
            /\ current = to_s(T, arg)
            /\ steps_left = 0
            /\ ~Smoother_is_smoothing(Self)
            /\ Smoother_next(Self) = [self |-> Self, ret |-> arg]
    /\ (op = "next" /\ ramp.phase = "reset") =>
            ret = ramp.v0 /\ Self = pre

C9_Witness ==
    /\ op = "reset"
    /\ pre.steps_left > 0
    /\ pre.current # to_s(T, arg)
    /\ pre.target # arg

\* C10: after any set_target call steps_left >= 1 (num_steps is at least 1).
C10_NumStepsAtLeastOne ==
    op = "set_target" => steps_left >= 1

C5_StepsLeftNonNegative ==
    (apc = "idle" /\ ppc = "idle") =>
        /\ Smoother_steps_left(Self) >= 0
        /\ Smoother_is_smoothing(Self) <=> Smoother_steps_left(Self) > 0

\* r is an integer nearest to the fractional value s
IsNearestInteger(r, s) == 2 * Abs(to_s("i32", r) - s) <= SCALE

\* C11: for Smoother<i32> every value returned by next(), next_step(),
\* previous_value() and by a block call is the fractional `current` rounded
\* to the nearest integer, and a ramp ends on exactly the integer target.
C11_ReturnsNearestInteger ==
    T = "i32" =>
        /\ IsNearestInteger(Smoother_previous_value(Self), current)
        /\ (op \in {"next", "next_step"} /\ pre.steps_left > 0) =>
                /\ IsNearestInteger(ret, current)
                /\ steps_left = 0 => ret = target
        /\ (op = "next_block_exact" /\ pre.steps_left > 0 /\ arg > 0) =>
                /\ IsNearestInteger(block_values[Min2(arg, pre.steps_left)],
                                    current)
                /\ steps_left = 0 => block_values[arg] = target

\* C12: a mapped block call on a block of length L calls the mapping function
\* exactly L times, once per index 0..L-1 in increasing order, whatever
\* steps_left is; the indices below min(L, steps_left) receive the value that
\* many next() calls leave in `current` (the exhausting index receives exactly
\* the target) and every later index receives the target.
C12_MapperCalledOncePerIndex ==
    op = "next_block_exact_mapped" =>
        LET n == Min2(arg, pre.steps_left)
        IN  /\ Len(mapper_calls) = arg
            /\ Len(block_values) = arg
            /\ \A i \in 1..arg :
                /\ mapper_calls[i].idx = i - 1
                /\ mapper_calls[i].value =
                        IF i <= n THEN NextTimes(pre, i).self.current
                        ELSE to_s(T, pre.target)
                /\ block_values[i] =
                        Mapper(arg_rate, i - 1, mapper_calls[i].value)
            /\ (n > 0 /\ n = pre.steps_left) =>
                    mapper_calls[n].value = to_s(T, pre.target)
            /\ Smoother_next_block_mapped(pre, arg, arg_rate) =
                    [self |-> Self, block |-> block_values,
                     calls |-> mapper_calls]

\* a mapped block that starts inside a ramp and runs past its end
C12_Witness ==
    /\ op = "next_block_exact_mapped"
    /\ pre.steps_left >= 2
    /\ arg > pre.steps_left
    /\ arg_rate = 1
    /\ mapper_calls[1].value # to_s(T, pre.target)
    /\ pre.current # to_s(T, pre.target)

\* the audio thread is inside next() and has loaded the step size
NextHasStepSize ==
    audio.op = "next" /\ apc \in {"fetch_sub", "store_zero", "store_current"}

\* every value the audio thread has loaded as a target is one that the
\* constructor, a reset or a set_target stored whole
LoadedWholeTarget == apc # "idle" => audio.target \in Values \cup {0}

C14_SetTargetPickedUp ==
    (pub.landed /\ apc = "idle" /\ ppc = "idle") =>
        /\ target = pub.target
        /\ steps_left = pub.steps_left
        /\ step_size = pub.step_size

\* the ramp of a set_target that landed on a next() in flight is lost: the
\* countdown it published is back at 0 and current is not the target
C14_RampLost ==
    ~(/\ pub.landed /\ apc = "idle" /\ ppc = "idle"
      /\ pub.steps_left >= 2
      /\ steps_left = 0
      /\ current # to_s(T, target))

\* C15 as stated: current and steps_left change only in steps of the audio
\* thread's operations, and target, style and step_size only in steps of the
\* producer's operations.
C15_SingleWriter ==
    [][/\ (current' # current \/ steps_left' # steps_left) => ppc' = ppc
       /\ (target' # target \/ step_size' # step_size \/ style' # style) =>
                apc' = apc]_vars

\* C15: target, style and step_size change only in steps of the producer's
\* operations; current changes in steps of the audio thread's operations and
\* in reset's store; steps_left changes in steps of the audio thread's
\* operations and in the stores of set_target and of reset.
C15_Writers ==
    [][/\ (target' # target \/ step_size' # step_size \/ style' # style) =>
                apc' = apc /\ ppc' # ppc
       /\ current' # current =>
                apc' # apc \/ ppc = "reset_store_current"
       /\ steps_left' # steps_left =>
                \/ apc' # apc
                \/ ppc \in {"set_target_store_steps_left",
                            "reset_store_steps_left"}]_vars

\* set_target has just stored a countdown while a next() that loaded the old
\* one is about to decrement it
C15_Witness ==
    /\ ppc = "set_target_load_current"
    /\ producer.steps_left >= 2
    /\ steps_left = producer.steps_left
    /\ apc = "fetch_sub"
    /\ audio.steps_left # steps_left

\* C16: once render has dropped the ramps scheduled for the parameter
\* (initialised or not, one or several), the parameter's smoothing style is
\* the style it had before they were scheduled.
C16_RampRestoresStyle ==
    (op = "render" /\ scheduled_params = <<>>) => style = style_before

\* C17: a pull from iter() yields Some of the value next() returns in the
\* state the smoother is in at the pull, whatever was called before it, and
\* leaves the smoother as next() leaves it; it never yields None
C17_IterEquivalentToNext ==
    op = "iter_next" =>
        /\ item = Some(Smoother_next(pre).ret)
        /\ Self = Smoother_next(pre).self

\* a pull in the middle of a ramp that a set_target started and an earlier
\* pull or next() call already advanced
C17_Witness ==
    /\ op = "iter_next"
    /\ ramp.phase = "ramp"
    /\ ramp.adv >= 2
    /\ pre.steps_left > 1
    /\ steps_left = pre.steps_left - 1
    /\ current # pre.current
    /\ item = Some(from_s(T, current))

\* C18: previous_value changes no field of the smoother and returns the
\* value the most recent next / next_step call returned, or the last element
\* the most recent block call wrote
C18_PreviousValue ==
    previous # None =>
        /\ Self = previous[1].pre
        /\ previous[1].ret = previous[1].last

\* the smoother is at rest on a value that is not its target: steps_left is 0
\* and current is not the target
RestsOffTarget(self) ==
    self.steps_left = 0 /\ self.current # to_s(T, self.target)

\* previous_value returns the last returned value unless the smoother rests
\* off its target
C18_PreviousValueOnTarget ==
    (previous # None /\ ~RestsOffTarget(Self)) =>
        /\ Self = previous[1].pre
        /\ previous[1].ret = previous[1].last

\* C19: with style None, wrapped in OversamplingAware or not, num_steps is 1
\* at every sample rate and step_size is zero; set_target leaves one step to
\* go, and the first next() after set_target(sr, t) returns exactly t and
\* leaves steps_left at 0
C19_StyleNone ==
    style.tag = "None" =>
        /\ \A sr \in SampleRates : SmoothingStyle_num_steps(style, sr) = 1
        /\ \A a, b \in Values, n \in 1..MaxTime :
                SmoothingStyle_step_size(style, to_s(T, a), to_s(T, b), n)
                    = ZERO
        /\ op = "set_target" =>
                /\ steps_left = 1
                /\ step_size = ZERO
                /\ Smoother_next(Self).ret = arg
                /\ Smoother_next(Self).self.steps_left = 0
        /\ (op = "next" /\ ramp.phase = "ramp" /\ ramp.adv = 1) =>
                /\ ret = ramp.t
                /\ current = to_s(T, ramp.t)
                /\ steps_left = 0

\* the first next() after a set_target to a new value, style None wrapped in
\* OversamplingAware with a factor of 2
C19_Witness ==
    /\ style.tag = "None"
    /\ style.oversampling_aware
    /\ oversampling_times = 2
    /\ op = "next"
    /\ ramp.phase = "ramp"
    /\ ramp.adv = 1
    /\ pre.steps_left = 1
    /\ pre.current # to_s(T, ramp.t)
    /\ ret = ramp.t
    /\ steps_left = 0

\* OversamplingAware(m, inner) in the present state: num_steps is that of
\* inner at the rate multiplied by the factor as it is now, and step_size,
\* next and next_step return what inner returns for the same arguments
OversamplingAwareDelegates ==
    style.oversampling_aware =>
        /\ \A sr \in SampleRates :
                SmoothingStyle_num_steps(style, sr) =
                    SmoothingStyle_num_steps(inner_style(style),
                                             sr * oversampling_times)
        /\ (steps_left >= 1 /\ LogarithmicContract(Self, target)) =>
                SmoothingStyle_step_size(style, current, to_s(T, target),
                                         steps_left) =
                    SmoothingStyle_step_size(inner_style(style), current,
                                             to_s(T, target), steps_left)
        /\ SmoothingStyle_next(style, current, to_s(T, target), step_size) =
                SmoothingStyle_next(inner_style(style), current,
                                    to_s(T, target), step_size)
        /\ \A k \in 1..MaxSkip :
                SmoothingStyle_next_step(style, current, to_s(T, target),
                                         step_size, k) =
                    SmoothingStyle_next_step(inner_style(style), current,
                                             to_s(T, target), step_size, k)

\* C20: OversamplingAware(m, inner) behaves as inner at the rate scaled by
\* the factor read at the call: the style functions delegate in every state,
\* set_target stores inner's step count at the scaled rate, and a change of
\* the factor changes neither steps_left nor step_size of the ramp under way
C20_OversamplingAware ==
    /\ []OversamplingAwareDelegates
    /\ [][/\ (style.oversampling_aware /\ op' = "set_target"
                    /\ calls' = calls + 1) =>
                steps_left' = SmoothingStyle_num_steps(
                                    inner_style(style),
                                    arg_rate' * oversampling_times)
          /\ oversampling_times' # oversampling_times =>
                UNCHANGED <<steps_left, step_size, current, target>>]_vars

\* the factor was changed after a set_target whose ramp is under way: the
\* countdown is still the one computed with the old factor
C20_Witness ==
    /\ style.oversampling_aware
    /\ op = "set_target"
    /\ steps_left > 1
    /\ steps_left = ramp.n
    /\ steps_left # SmoothingStyle_num_steps(style, arg_rate)

\* C21: a freshly constructed smoother (new(style), none(), default()) has
\* steps_left 0, current zero and the default target; is_smoothing() is false
\* and next() returns the default target and changes nothing
C21_FreshSmoother ==
    /\ \A s \in {Smoother_new(style), Smoother_none, Smoother_default} :
        /\ s.steps_left = 0
        /\ s.current = ZERO
        /\ s.target = 0
        /\ ~Smoother_is_smoothing(s)
        /\ Smoother_next(s) = [self |-> s, ret |-> 0]
    /\ Smoother_new(StyleNone) = Smoother_default
    /\ op = "new" => Self = Smoother_new(style)
    /\ (op = "next" /\ pre = Smoother_new(style)) => ret = 0 /\ Self = pre

\* next() was called on a smoother as new(style) leaves it, style not None
C21_Witness ==
    /\ op = "next"
    /\ calls = 0
    /\ style.tag # "None"
    /\ pre = Smoother_new(style)
    /\ ret = 0
    /\ Self = Smoother_new(style)

\* C22 as stated: set_target publishes target, steps_left, step_size in this
\* order, and no observer sees the new step_size together with the old target
\* of the same call.  The observer is a next() call: it has loaded a target
\* older than the step_size it loads.
C22_NoMixedObservation ==
    ~(audio.op = "next" /\ apc = "fetch_sub" /\ audio.ahead)

\* C22 amended: the accesses of set_target happen in program order, one cell
\* at a time: the store of target, then the store of steps_left (num_steps),
\* then the load of current, then the store of step_size computed from that
\* loaded current and the stored count.
C22_SetTargetOrder ==
    [][/\ (ppc = "idle" /\ ppc' # "idle" /\ producer'.op = "set_target") =>
                /\ target' = producer'.value
                /\ ppc' = "set_target_store_steps_left"
                /\ UNCHANGED <<steps_left, step_size, current>>
       /\ (ppc = "set_target_store_steps_left" /\ ppc' # ppc) =>
                /\ steps_left' = SmoothingStyle_num_steps(
                                    style, producer.sample_rate)
                /\ producer'.steps_left = steps_left'
                /\ ppc' = "set_target_load_current"
                /\ UNCHANGED <<target, step_size, current>>
       /\ (ppc = "set_target_load_current" /\ ppc' # ppc) =>
                /\ producer'.current = current
                /\ ppc' = "set_target_store_step_size"
                /\ UNCHANGED <<target, steps_left, step_size, current>>
       /\ (ppc = "set_target_store_step_size" /\ ppc' # ppc) =>
                /\ step_size' =
                        IF producer.steps_left > 0
                        THEN SmoothingStyle_step_size(
                                style, producer.current,
                                to_s(T, producer.value), producer.steps_left)
                        ELSE ZERO
                /\ ppc' = "idle"
                /\ UNCHANGED <<target, steps_left, current>>]_vars

\* set_target has stored target and steps_left and loaded a current that the
\* audio thread has moved since the call began; step_size is still the old one
C22_Witness ==
    /\ ppc = "set_target_store_step_size"
    /\ producer.steps_left >= 2
    /\ target = producer.value
    /\ pub.step_size_by < pub.target_by
    /\ producer.current # ZERO
    /\ apc = "idle"

\* C23: set_target never writes current; whatever is left of a ramp, it
\* stores the full num_steps as the countdown and the step size computed
\* from the current value as it is, and a step size of zero when num_steps
\* is not positive
C23_SetTargetKeepsCurrent ==
    [][(op' = "set_target" /\ calls' = calls + 1) =>
            LET n == SmoothingStyle_num_steps(style, arg_rate')
            IN  /\ current' = current
                /\ target' = arg'
                /\ steps_left' = n
                /\ step_size' =
                        IF n > 0
                        THEN SmoothingStyle_step_size(style, current,
                                                      to_s(T, arg'), n)
                        ELSE ZERO
                /\ n > 0 =>
                        Smoother_next(Self').ret =
                            from_s(T, IF n = 1 THEN to_s(T, arg')
                                      ELSE SmoothingStyle_next(
                                            style, current, to_s(T, arg'),
                                            step_size'))]_vars

\* set_target was called in the middle of a ramp: fewer steps were left than
\* the new countdown, and current was between the old start and target
C23_Witness ==
    /\ op = "set_target"
    /\ pre.steps_left > 0
    /\ pre.steps_left < steps_left
    /\ pre.current # ZERO
    /\ pre.current # to_s(T, pre.target)
    /\ current = pre.current
    /\ arg # pre.target

\* C24: the decrement of steps_left and the clamp back to 0 in next() and
\* next_step() are one atomic step: between them no other thread can read a
\* negative steps_left, and no set_target can store its countdown
C24_DecrementAndClampAtomic ==
    apc = "store_zero" =>
        /\ steps_left >= 0
        /\ ppc # "set_target_store_steps_left"

\* the last call was a block call, mapped or not
IsBlockCall == op \in {"next_block_exact", "next_block_exact_mapped"}

\* the value of element i (1-based) of the last block call before the
\* conversion to T: what the mapping function received, or the element
\* itself when nothing was mapped
BlockSource(i) ==
    IF op = "next_block_exact_mapped" THEN mapper_calls[i].value
    ELSE block_values[i]

\* a value of S as the last block call hands it on: as it is to a mapping
\* function, converted to T otherwise
AsBlockSource(s) == IF op = "next_block_exact_mapped" THEN s ELSE from_s(T, s)

\* C25: a block call on L elements with steps_left = s >= 0 interpolates
\* exactly min(L, s) elements and fills the rest with target; it leaves
\* steps_left = max(s - L, 0), leaves current on target when L >= s > 0, and
\* changes nothing when L = 0
C25_BlockCounts ==
    (IsBlockCall /\ pre.steps_left >= 0) =>
        LET L == arg
            s == pre.steps_left
            n == Min2(L, s)
            target_s == to_s(T, pre.target)
            run == fill_with_next(pre.style, pre.current, target_s,
                                  pre.step_size, n)
        IN  /\ Len(block_values) = L
            /\ \A i \in 1..L :
                    BlockSource(i) =
                        IF i <= n /\ i < s THEN AsBlockSource(run[i])
                        ELSE IF op = "next_block_exact_mapped" THEN target_s
                        ELSE pre.target
            /\ steps_left = Max2(s - L, 0)
            /\ current = IF n = 0 THEN pre.current
                         ELSE IF n = s THEN target_s ELSE run[n]
            /\ (L >= s /\ s > 0) => current = target_s
            /\ L = 0 => Self = pre /\ block_values = <<>>
            /\ target = pre.target
            /\ step_size = pre.step_size
            /\ style = pre.style

\* a block of three elements on a ramp with two steps left: one interpolated
\* element, the snap, one element of fill
C25_Witness ==
    /\ op = "next_block_exact"
    /\ pre.steps_left = 2
    /\ arg = 3
    /\ block_values[1] # pre.target
    /\ block_values[2] = pre.target
    /\ block_values[3] = pre.target
    /\ pre.current # to_s(T, pre.target)
    /\ steps_left = 0
    /\ current = to_s(T, pre.target)

\* C26: a block call that finds steps_left <= 0 at entry, negative values
\* included, writes target to every element and leaves current and
\* steps_left as they are.  The call has loaded the counter and is about to
\* run its fetch_sub.
C26_IdleBlockFillsTarget ==
    (audio.op = "next_block_exact" /\ apc = "block_fetch_sub"
            /\ audio.steps_left <= 0) =>
        /\ \A i \in 1..Len(audio.block) : audio.block[i] = audio.target
        /\ audio.new = audio.current
        /\ AudioNumSmoothedValues = 0

\* C27: in every interleaving of the render thread's next() calls, ramp
\* init and ramp drop with a producer's set_target calls, no borrow of the
\* style fails: no shared borrow coincides with the exclusive one
C27_NoBorrowConflict ==
    /\ style_borrow.panic = "none"
    /\ ~(style_borrow.exclusive /\ style_borrow.shared > 0)

\* the frames processed by the entries of the render log before entry j
RECURSIVE FramesBefore(_, _)
FramesBefore(log, j) ==
    IF j <= 1 THEN 0 ELSE log[j - 1].length + FramesBefore(log, j - 1)

C29_MappedEquivalentToExact ==
    (op = "next_block_exact_mapped" /\ arg_rate = 0) =>
        /\ block_values = Smoother_next_block_exact(pre, arg).block
        /\ Self = Smoother_next_block_exact(pre, arg).self

\* after next_block and next_block_mapped on a buffer longer than the block
\* the elements from block_len on are what the caller had there, and the
\* first block_len elements and the smoother are those of the exact call on
\* a slice of block_len elements
C29_BlockTouchesPrefix ==
    op \in {"next_block", "next_block_mapped"} =>
        LET r == IF op = "next_block"
                 THEN Smoother_next_block_exact(pre, arg)
                 ELSE Smoother_next_block_exact_mapped(pre, arg, arg_rate)
        IN  /\ Self = r.self
            /\ SubSeq(block_values, 1, arg) = r.block
            /\ \A i \in (arg + 1)..Len(block_values) : block_values[i] = 0 - i

\* next_block on a buffer with elements beyond the block, in a ramp
C29_PrefixWitness ==
    /\ op = "next_block"
    /\ arg >= 1
    /\ Len(block_values) > arg
    /\ pre.steps_left > arg

\* C30: whenever render has returned with steps of a ramp left to take, the
\* style installed in the smoother, which next() and the block calls will
\* use on step_size, is the style under which set_target computed that
\* step_size
C30_StyleMatchesStepSize ==
    (op = "render" /\ steps_left > 0) => style = rendered.step_style

\* the producer has made its last call and the call has returned
ProducerDone == ppc = "idle" /\ calls = MaxCalls

\* C31: once the producer has made its last set_target call, the audio
\* thread's next() calls bring the smoother to rest with steps_left = 0
C31_RampEnds == ProducerDone ~> (apc = "idle" /\ steps_left = 0)

\* x lies in the closed range between a and b
Between(x, a, b) == (a <= x /\ x <= b) \/ (b <= x /\ x <= a)

\* C32: on one thread, every value next(), next_step() and the exact block
\* call produce while a Linear ramp is under way lies in the closed range
\* between the value before the call and the target, so the ramp moves towards
\* its target without passing it; next() takes steps_left down by exactly one
\* while it is positive, and only set_target raises steps_left
C32_LinearNoOvershoot ==
    /\ (/\ op \in {"next", "next_step"}
        /\ pre.style.tag = "Linear"
        /\ pre.steps_left > 0)
            => Between(ret, pre.current, to_s(T, pre.target))
    /\ (/\ op = "next_block_exact"
        /\ pre.style.tag = "Linear"
        /\ pre.steps_left > 0)
            => \A i \in 1..Len(block_values) :
                    Between(block_values[i],
                            IF i = 1 THEN pre.current ELSE block_values[i - 1],
                            to_s(T, pre.target))
    /\ (op = "next" /\ pre.steps_left > 0) => steps_left = pre.steps_left - 1
    /\ steps_left > pre.steps_left => op = "set_target"

====
